---- MODULE Spec2Model ----
(***************************************************************************)
(* Model of the mailbox watchers of malikusman/email_routing.              *)
(*                                                                         *)
(*   ZohoSmartPollingProcessor (src/zoho_smart_processing.py): a polling   *)
(*   thread that searches and fetches unseen messages and puts them on     *)
(*   email_queue, a worker thread that takes them and saves a draft, and   *)
(*   the main thread that stops both.                                      *)
(*                                                                         *)
(*   ZohoEmailIdleProcessor (src/zoho_idel.py): a watcher thread that      *)
(*   holds one IMAP session in self.mail, waits in IDLE, drains on a       *)
(*   notification, and the main thread that stops it.                      *)
(*                                                                         *)
(*   The timing of smart_polling_loop (adjust_polling_interval and the     *)
(*   sleep between two cycles) is followed on its own, with get_new_emails *)
(*   reduced to the time it takes and whether it found anything.           *)
(*                                                                         *)
(*   ZohoEmailProcessor (src/zoho_faiss.py): run_continuous, one thread     *)
(*   that fetches the unseen messages and saves a draft for each.          *)
(*                                                                         *)
(*   One call of select_template (of src/zoho_faiss.py and of the two      *)
(*   thread repliers) or of the head of save_reply_as_draft, on inputs     *)
(*   drawn from bounded sets.                                              *)
(*                                                                         *)
(*   main of the API-based pollers (src/zoho_auto_reply_with_faiss.py,     *)
(*   src/gmail_auto_reply_with_faiss.py, gmail_auto_reply_thread_draft.py):*)
(*   one thread that lists the unread messages, creates a draft for each   *)
(*   and marks it read.                                                    *)
(*                                                                         *)
(* One run starts one of the six (Init chooses which).                     *)
(* Every IMAP call is an outcome chosen by the environment: it returns     *)
(* with a status, or it raises.                                            *)
(***************************************************************************)
EXTENDS Integers, Sequences, FiniteSets, TLC

\* Number of distinct message ids the mailbox can report.
MaxMsg == 2

Ids == 1..MaxMsg

\* How often a history counter counts before it saturates.
MaxCount == 2

\* The time since last_email_time is counted up to MaxIdle s; it is beyond the
\* 600 s of adjust_polling_interval, and every longer time behaves like it.
MaxIdle == 601

\* The longest subject and the longest body, in tokens.
MaxLen == 2

\* The largest coordinate of an embedding.
MaxCoord == 2

\* The shutdown sentinel put on email_queue (Python None).
None == 0

\* The capacity K of the backpressure scenario: K + 1 messages fit in one drain.
K == MaxMsg - 1

\* Mutant: the queue is built with maxsize K.
maxsize_K == K

\* queue.Queue() is built without a maxsize: 0 means "no limit".
maxsize == 0

VARIABLES
    \* ---- ZohoSmartPollingProcessor ----
    sp_running,           \* self.running
    sp_processed_emails,  \* self.processed_emails
    sp_email_queue,       \* self.email_queue, oldest first
    sp_main,              \* main thread: "off", "sleeping", "put_none", "stopped"
    sp_poll,              \* polling thread: position in smart_polling_loop / get_new_emails
    sp_mail,              \* state of the session get_new_emails opened
    sp_email_ids,         \* ids of the search result not yet iterated
    sp_emails,            \* the list get_new_emails is building
    sp_new_emails,        \* what get_new_emails returned to the loop
    sp_put_i,             \* how many of sp_new_emails have been put
    sp_work,              \* worker thread: position in email_processor_worker / save_reply_as_draft
    sp_item,              \* the work item the worker holds (None: none)
    sp_draft_mail,        \* state of the session save_reply_as_draft opened
    sp_saved,             \* what save_reply_as_draft returned last: "none", "True", "False"
    \* history of the run (not program state)
    sp_seen,              \* ids the membership check has let through
    sp_enq,               \* id -> number of times it was put on email_queue
    sp_taken,             \* ids the worker took from email_queue
    sp_claims,            \* id -> number of times the worker took it from email_queue
    sp_added,             \* id -> number of processed_emails.add calls made for it
    sp_appended,          \* id -> number of mail.append calls made for its draft
    sp_fail,              \* some IMAP call of this run was refused or has raised
    sp_before,            \* processed_emails of the run the last restart has ended
    sp_stored,            \* the append of the save_reply_as_draft under way was answered OK
    \* ---- ZohoEmailIdleProcessor ----
    id_running,           \* self.running
    id_processed_emails,  \* self.processed_emails
    id_mail,              \* self.mail: "None", or the state of the session it refers to
    id_main,              \* main thread: position in start_monitoring / stop_monitoring
    id_main_op,           \* the call the main thread has outstanding on self.mail
    id_watch,             \* watcher thread: position in idle_loop and what it calls
    id_watch_op,          \* the call the watcher has outstanding on self.mail
    id_fallback,          \* the watcher is inside fallback_polling
    id_email_ids,         \* ids of the search result not yet iterated
    \* history of the run (not program state)
    id_idling,            \* an IDLE was sent on self.mail and no DONE after it
    id_err,               \* a call on the session self.mail refers to has raised
    id_unsupported,       \* an IDLE was answered with something other than '+ idling'
    id_handled,           \* id -> number of process_new_email calls made for it
    id_attempted,         \* ids save_reply_as_draft was called for
    id_after,             \* what the watcher completed last and has sent no IDLE since
    id_found,             \* number of ids the running drain gave to process_new_email
    id_connect_failed,    \* a connect_imap of the watcher has failed
    \* ---- the timing of smart_polling_loop ----
    iv_pc,                \* position in the loop body: "off", "poll", "adjust", "sleep_time", "sleeping"
    iv_current_interval,  \* self.current_interval, in units of 1/Scale s
    iv_time_since_last_email,  \* datetime.now() - self.last_email_time, in s, up to MaxIdle
    iv_found,             \* new_emails of the running cycle is not empty
    iv_processing_time,   \* processing_time of the running cycle, in s
    iv_sleep_time,        \* sleep_time of the running cycle, in units of 1/Scale s
    \* history of the run (not program state)
    iv_prev_interval,     \* current_interval before the last adjust_polling_interval
    iv_prev_since,        \* time since last_email_time when the last adjust_polling_interval began
    \* ---- ZohoEmailProcessor (zoho_faiss.py) ----
    fa_pc,                \* position in run_continuous and what it calls
    fa_processed_emails,  \* self.processed_emails
    fa_mail,              \* state of the session get_unread_emails opened
    fa_email_ids,         \* ids of the search result not yet iterated
    fa_emails,            \* the list get_unread_emails is building, then what it returned
    fa_todo,              \* the emails process_emails has not been through yet
    fa_draft_mail,        \* state of the session save_reply_as_draft opened
    fa_folder,            \* the folder that session has selected ("none": none)
    \* history of the run (not program state)
    fa_result,            \* the ids the search of the running cycle returned
    fa_refused,           \* ids whose fetch was answered with a status other than OK
    fa_raised,            \* get_unread_emails of the running cycle ended in its except
    fa_target,            \* the folder the append of the running save named ("none": none yet)
    \* ---- one call of select_template or of the head of save_reply_as_draft ----
    cp_pc,                \* "off", the function called, or "returned"
    cp_prog,              \* the module of the function called
    cp_body,              \* email_body / thread_content
    cp_index,             \* the vectors of faiss_index, by template index
    cp_subject,           \* original_email['subject']
    cp_message_id,        \* original_email['message_id']
    cp_encoded,           \* model.encode was called
    cp_embedding,         \* thread_embedding (<< >>: none)
    cp_template,          \* index of the template returned (-1: none)
    cp_reply_subject,     \* reply['Subject']
    cp_reply_headers,     \* the In-Reply-To and References headers of reply
    \* ---- main of the API-based pollers ----
    ap_pc,                \* position in main: "off", "list", "loop", "thread", "draft", "mark", "sleep"
    ap_unread,            \* the messages of the inbox the service holds as unread
    ap_messages,          \* messages: what the for loop has not been through yet
    ap_drafts,            \* id -> number of drafts the service has created for it
    \* history of the cycle (not program state)
    ap_empty,             \* get_thread has returned a thread without messages
    ap_error              \* a call of the service was refused or has raised

sp_vars == << sp_running, sp_processed_emails, sp_email_queue, sp_main, sp_poll,
              sp_mail, sp_email_ids, sp_emails, sp_new_emails, sp_put_i, sp_work,
              sp_item, sp_draft_mail, sp_saved, sp_seen, sp_enq, sp_taken, sp_added,
              sp_appended, sp_fail, sp_claims, sp_before, sp_stored >>

id_vars == << id_running, id_processed_emails, id_mail, id_main, id_main_op, id_watch,
              id_watch_op, id_fallback, id_email_ids, id_idling, id_err, id_unsupported,
              id_handled, id_attempted, id_after, id_found, id_connect_failed >>

iv_vars == << iv_pc, iv_current_interval, iv_time_since_last_email, iv_found,
              iv_processing_time, iv_sleep_time, iv_prev_interval, iv_prev_since >>

fa_vars == << fa_pc, fa_processed_emails, fa_mail, fa_email_ids, fa_emails, fa_todo,
              fa_draft_mail, fa_folder, fa_result, fa_refused, fa_raised, fa_target >>

cp_vars == << cp_pc, cp_prog, cp_body, cp_index, cp_subject, cp_message_id,
              cp_encoded, cp_embedding, cp_template, cp_reply_subject,
              cp_reply_headers >>

ap_vars == << ap_pc, ap_unread, ap_messages, ap_drafts, ap_empty, ap_error >>

vars == << sp_vars, id_vars, iv_vars, fa_vars, cp_vars, ap_vars >>

-----------------------------------------------------------------------------
\* Helpers

\* The ids of S in ascending order, as an IMAP search lists them.
SortedSeq(S) ==
    CHOOSE s \in [1..Cardinality(S) -> S] :
        \A i, j \in 1..Cardinality(S) : i < j => s[i] < s[j]

\* Every answer an UNSEEN search can give.
SearchResults == { SortedSeq(S) : S \in SUBSET Ids }

Range(s) == { s[i] : i \in 1..Len(s) }

Bump(f, id) == [f EXCEPT ![id] = IF @ < MaxCount THEN @ + 1 ELSE @]

\* Mutant: the membership check never finds the id.
AlreadyProcessedNever(id, processed) == FALSE

\* if email_id.decode() in self.processed_emails
AlreadyProcessed(id, processed) == id \in processed

\* Mutant: the id is not added to the set.
MarkProcessedForgets(processed, id) == processed

\* self.processed_emails.add(email_id.decode())
MarkProcessed(processed, id) == processed \cup {id}

\* Mutant: the loop head does not look at the flag.
LoopForever(running) == TRUE

\* while self.running:
LoopContinues(running) == running

\* Mutant: get hands out the oldest item and leaves it on the queue.
DequeuePeeks(q) == q

\* queue.Queue.get removes the oldest item from the queue.
Dequeue(q) == Tail(q)

\* queue.Queue.put blocks while the queue is full; with maxsize 0 it never is.
QueueFull(q) == maxsize > 0 /\ Len(q) >= maxsize

-----------------------------------------------------------------------------
\* ZohoSmartPollingProcessor

\* The processor as constructed, not started.
SmartOff ==
    /\ sp_running = FALSE
    /\ sp_processed_emails = {}
    /\ sp_email_queue = << >>
    /\ sp_main = "off"
    /\ sp_poll = "off"
    /\ sp_mail = "NONE"
    /\ sp_email_ids = << >>
    /\ sp_emails = << >>
    /\ sp_new_emails = << >>
    /\ sp_put_i = 0
    /\ sp_work = "off"
    /\ sp_item = None
    /\ sp_draft_mail = "NONE"
    /\ sp_saved = "none"
    /\ sp_seen = {}
    /\ sp_enq = [i \in Ids |-> 0]
    /\ sp_taken = {}
    /\ sp_added = [i \in Ids |-> 0]
    /\ sp_appended = [i \in Ids |-> 0]
    /\ sp_fail = FALSE
    /\ sp_claims = [i \in Ids |-> 0]
    /\ sp_before = {}
    /\ sp_stored = FALSE

\* start_monitoring has set running and started both threads.
SmartStarted ==
    /\ sp_running = TRUE
    /\ sp_processed_emails = {}
    /\ sp_email_queue = << >>
    /\ sp_main = "sleeping"
    /\ sp_poll = "head"
    /\ sp_mail = "NONE"
    /\ sp_email_ids = << >>
    /\ sp_emails = << >>
    /\ sp_new_emails = << >>
    /\ sp_put_i = 0
    /\ sp_work = "head"
    /\ sp_item = None
    /\ sp_draft_mail = "NONE"
    /\ sp_saved = "none"
    /\ sp_seen = {}
    /\ sp_enq = [i \in Ids |-> 0]
    /\ sp_taken = {}
    /\ sp_added = [i \in Ids |-> 0]
    /\ sp_appended = [i \in Ids |-> 0]
    /\ sp_fail = FALSE
    /\ sp_claims = [i \in Ids |-> 0]
    /\ sp_before = {}
    /\ sp_stored = FALSE

sp_poll_vars == << sp_poll, sp_mail, sp_email_ids, sp_emails, sp_new_emails, sp_put_i >>
sp_work_vars == << sp_work, sp_item, sp_draft_mail, sp_saved >>
sp_hist_vars == << sp_seen, sp_enq, sp_taken, sp_added, sp_appended, sp_claims >>

\* An IMAP call was refused or has raised.
Failed == sp_fail' = TRUE

\* get_new_emails returns `result` to smart_polling_loop.
GetNewEmailsReturn(result) ==
    /\ sp_new_emails' = result
    /\ sp_put_i' = 0
    /\ sp_email_ids' = << >>
    /\ sp_emails' = << >>
    /\ sp_poll' = "put"

\* while self.running:
SmartPollHead ==
    /\ sp_poll = "head"
    /\ sp_poll' = IF LoopContinues(sp_running) THEN "connect" ELSE "done"
    /\ UNCHANGED << sp_running, sp_processed_emails, sp_email_queue, sp_main, sp_mail,
                    sp_email_ids, sp_emails, sp_new_emails, sp_put_i,
                    sp_work_vars, sp_hist_vars, sp_fail >>
    /\ UNCHANGED << sp_before, sp_stored, id_vars, iv_vars, fa_vars, cp_vars, ap_vars >>

\* mail = self.connect_imap(); if not mail: return []
SmartPollConnect ==
    /\ sp_poll = "connect"
    /\ \E ok \in BOOLEAN :
          IF ok
          THEN /\ sp_mail' = "AUTH"
               /\ sp_poll' = "select"
               /\ UNCHANGED << sp_email_ids, sp_emails, sp_new_emails, sp_put_i, sp_fail >>
          ELSE /\ sp_mail' = "NONE"
               /\ GetNewEmailsReturn(<< >>)
               /\ Failed
    /\ UNCHANGED << sp_running, sp_processed_emails, sp_email_queue, sp_main,
                    sp_work_vars, sp_hist_vars >>
    /\ UNCHANGED << sp_before, sp_stored, id_vars, iv_vars, fa_vars, cp_vars, ap_vars >>

\* mail.select('INBOX'): its status is not looked at; raising ends the call.
SmartPollSelect ==
    /\ sp_poll = "select"
    /\ \E r \in {"OK", "NO", "raise"} :
          CASE r = "OK" ->
                 /\ sp_mail' = "SELECTED"
                 /\ sp_poll' = "search"
                 /\ UNCHANGED << sp_email_ids, sp_emails, sp_new_emails, sp_put_i, sp_fail >>
            [] r = "NO" ->
                 /\ sp_poll' = "search"
                 /\ Failed
                 /\ UNCHANGED << sp_mail, sp_email_ids, sp_emails, sp_new_emails, sp_put_i >>
            [] r = "raise" ->
                 /\ GetNewEmailsReturn(<< >>)
                 /\ Failed
                 /\ UNCHANGED sp_mail
    /\ UNCHANGED << sp_running, sp_processed_emails, sp_email_queue, sp_main,
                    sp_work_vars, sp_hist_vars >>
    /\ UNCHANGED << sp_before, sp_stored, id_vars, iv_vars, fa_vars, cp_vars, ap_vars >>

\* status, messages = mail.search(...): not OK returns [], raising returns [].
\* A search outside the SELECTED state raises.
SmartPollSearch ==
    /\ sp_poll = "search"
    /\ \/ /\ sp_mail = "SELECTED"
          /\ \E ids \in SearchResults :
                /\ sp_email_ids' = ids
                /\ sp_emails' = << >>
                /\ sp_poll' = "loop"
                /\ UNCHANGED << sp_new_emails, sp_put_i, sp_fail >>
       \/ /\ sp_mail = "SELECTED"
          /\ GetNewEmailsReturn(<< >>)          \* status != 'OK'
          /\ Failed
       \/ /\ GetNewEmailsReturn(<< >>)          \* raised
          /\ Failed
    /\ UNCHANGED << sp_running, sp_processed_emails, sp_email_queue, sp_main, sp_mail,
                    sp_work_vars, sp_hist_vars >>
    /\ UNCHANGED << sp_before, sp_stored, id_vars, iv_vars, fa_vars, cp_vars, ap_vars >>

\* One iteration of `for email_id in email_ids`, or the end of the loop.
SmartPollIter ==
    /\ sp_poll = "loop"
    /\ IF sp_email_ids = << >>
       THEN /\ sp_poll' = "close"
            /\ UNCHANGED << sp_processed_emails, sp_email_ids, sp_emails,
                            sp_new_emails, sp_put_i, sp_added, sp_seen, sp_fail >>
       ELSE LET id == Head(sp_email_ids) IN
            IF AlreadyProcessed(id, sp_processed_emails)
            THEN /\ sp_email_ids' = Tail(sp_email_ids)         \* continue
                 /\ UNCHANGED << sp_processed_emails, sp_poll, sp_emails,
                                 sp_new_emails, sp_put_i, sp_added, sp_seen, sp_fail >>
            ELSE /\ sp_seen' = sp_seen \cup {id}
                 /\ \E r \in {"OK", "NO", "raise"} :
                    CASE r = "OK" ->                            \* fetched and parsed
                           /\ sp_emails' = Append(sp_emails, id)
                           /\ sp_processed_emails' = MarkProcessed(sp_processed_emails, id)
                           /\ sp_added' = Bump(sp_added, id)
                           /\ sp_email_ids' = Tail(sp_email_ids)
                           /\ UNCHANGED << sp_poll, sp_new_emails, sp_put_i, sp_fail >>
                      [] r = "NO" ->                            \* status != 'OK': continue
                           /\ sp_email_ids' = Tail(sp_email_ids)
                           /\ Failed
                           /\ UNCHANGED << sp_processed_emails, sp_poll, sp_emails,
                                           sp_new_emails, sp_put_i, sp_added >>
                      [] r = "raise" ->                         \* fetch or parsing raised
                           /\ GetNewEmailsReturn(<< >>)
                           /\ Failed
                           /\ UNCHANGED << sp_processed_emails, sp_added >>
    /\ UNCHANGED << sp_running, sp_email_queue, sp_main, sp_mail, sp_work_vars,
                    sp_enq, sp_taken, sp_appended, sp_claims >>
    /\ UNCHANGED << sp_before, sp_stored, id_vars, iv_vars, fa_vars, cp_vars, ap_vars >>

\* mail.close()
SmartPollClose ==
    /\ sp_poll = "close"
    /\ \E ok \in BOOLEAN :
          IF ok
          THEN /\ sp_mail' = "AUTH"
               /\ sp_poll' = "logout"
               /\ UNCHANGED << sp_email_ids, sp_emails, sp_new_emails, sp_put_i, sp_fail >>
          ELSE /\ GetNewEmailsReturn(<< >>)
               /\ Failed
               /\ UNCHANGED sp_mail
    /\ UNCHANGED << sp_running, sp_processed_emails, sp_email_queue, sp_main,
                    sp_work_vars, sp_hist_vars >>
    /\ UNCHANGED << sp_before, sp_stored, id_vars, iv_vars, fa_vars, cp_vars, ap_vars >>

\* mail.logout(); return emails
SmartPollLogout ==
    /\ sp_poll = "logout"
    /\ sp_mail' = "LOGOUT"
    /\ \E ok \in BOOLEAN :
          /\ GetNewEmailsReturn(IF ok THEN sp_emails ELSE << >>)
          /\ sp_fail' = (sp_fail \/ ~ok)
    /\ UNCHANGED << sp_running, sp_processed_emails, sp_email_queue, sp_main,
                    sp_work_vars, sp_hist_vars >>
    /\ UNCHANGED << sp_before, sp_stored, id_vars, iv_vars, fa_vars, cp_vars, ap_vars >>

\* for email_data in new_emails: self.email_queue.put(email_data)
SmartPollPut ==
    /\ sp_poll = "put"
    /\ IF sp_put_i < Len(sp_new_emails)
       THEN /\ ~QueueFull(sp_email_queue)
            /\ sp_email_queue' = Append(sp_email_queue, sp_new_emails[sp_put_i + 1])
            /\ sp_enq' = Bump(sp_enq, sp_new_emails[sp_put_i + 1])
            /\ sp_put_i' = sp_put_i + 1
            /\ UNCHANGED sp_poll
       ELSE /\ sp_poll' = "adjust"
            /\ UNCHANGED << sp_email_queue, sp_enq, sp_put_i >>
    /\ UNCHANGED << sp_running, sp_processed_emails, sp_main, sp_mail, sp_email_ids,
                    sp_emails, sp_new_emails, sp_work_vars, sp_seen, sp_taken, sp_added,
                    sp_appended, sp_fail, sp_claims >>
    /\ UNCHANGED << sp_before, sp_stored, id_vars, iv_vars, fa_vars, cp_vars, ap_vars >>

\* self.adjust_polling_interval(new_emails); time.sleep(sleep_time); the locals
\* of the iteration (new_emails, the session of get_new_emails) are gone.
SmartPollSleep ==
    /\ sp_poll = "adjust"
    /\ sp_poll' = "head"
    /\ sp_new_emails' = << >>
    /\ sp_put_i' = 0
    /\ sp_mail' = "NONE"
    /\ UNCHANGED << sp_running, sp_processed_emails, sp_email_queue, sp_main,
                    sp_email_ids, sp_emails, sp_work_vars, sp_hist_vars, sp_fail >>
    /\ UNCHANGED << sp_before, sp_stored, id_vars, iv_vars, fa_vars, cp_vars, ap_vars >>

smart_polling_loop ==
    \/ SmartPollHead
    \/ SmartPollConnect
    \/ SmartPollSelect
    \/ SmartPollSearch
    \/ SmartPollIter
    \/ SmartPollClose
    \/ SmartPollLogout
    \/ SmartPollPut
    \/ SmartPollSleep

-----------------------------------------------------------------------------
\* email_processor_worker and the save_reply_as_draft it calls

\* Mutant: a draft that could not be saved ends the worker.
AfterSaveStopsOnFailure(result) == IF result = "False" THEN "done" ELSE "task_done"

\* if self.save_reply_as_draft(...): logger.info(...) else: logger.error(...)
\* Both branches go on to self.email_queue.task_done().
AfterSave(result) == "task_done"

\* save_reply_as_draft returns `result` to the worker.
SaveReplyReturn(result) ==
    /\ sp_saved' = result
    /\ sp_work' = AfterSave(result)

\* while self.running:
SmartWorkHead ==
    /\ sp_work = "head"
    /\ sp_work' = IF LoopContinues(sp_running) THEN "get" ELSE "done"
    /\ UNCHANGED << sp_running, sp_processed_emails, sp_email_queue, sp_main,
                    sp_poll_vars, sp_item, sp_draft_mail, sp_saved, sp_hist_vars, sp_fail >>
    /\ UNCHANGED << sp_before, sp_stored, id_vars, iv_vars, fa_vars, cp_vars, ap_vars >>

\* email_data = self.email_queue.get(timeout=1); None breaks; Empty continues.
SmartWorkGet ==
    /\ sp_work = "get"
    /\ IF sp_email_queue = << >>
       THEN /\ sp_work' = "head"                                \* queue.Empty
            /\ UNCHANGED << sp_email_queue, sp_item, sp_taken, sp_claims >>
       ELSE /\ sp_email_queue' = Dequeue(sp_email_queue)
            /\ IF Head(sp_email_queue) = None
               THEN /\ sp_work' = "done"
                    /\ UNCHANGED << sp_item, sp_taken, sp_claims >>
               ELSE /\ sp_item' = Head(sp_email_queue)
                    /\ sp_taken' = sp_taken \cup {Head(sp_email_queue)}
                    /\ sp_claims' = Bump(sp_claims, Head(sp_email_queue))
                    /\ sp_work' = "connect"
    /\ UNCHANGED << sp_running, sp_processed_emails, sp_main, sp_poll_vars,
                    sp_draft_mail, sp_saved, sp_seen, sp_enq, sp_added, sp_appended, sp_fail >>
    /\ UNCHANGED << sp_before, sp_stored, id_vars, iv_vars, fa_vars, cp_vars, ap_vars >>

\* connect_smtp(): smtplib.SMTP(...), starttls(), login(); defined, never called.
connect_smtp == "SMTP"

\* connect_imap(): the session imaplib.IMAP4_SSL(...) returns after login().
connect_imap == "AUTH"

\* mail = self.connect_imap(); if not mail: return False
SmartWorkConnect ==
    /\ sp_work = "connect"
    /\ \E ok \in BOOLEAN :
          IF ok
          THEN /\ sp_draft_mail' = connect_imap
               /\ sp_work' = "select_Drafts"
               /\ UNCHANGED << sp_saved, sp_fail >>
          ELSE /\ sp_draft_mail' = "NONE"
               /\ SaveReplyReturn("False")
               /\ Failed
    /\ UNCHANGED << sp_running, sp_processed_emails, sp_email_queue, sp_main,
                    sp_poll_vars, sp_item, sp_hist_vars >>
    /\ UNCHANGED << sp_before, sp_stored, id_vars, iv_vars, fa_vars, cp_vars, ap_vars >>

\* try: mail.select('Drafts')  except: try: mail.select('DRAFT')  except: ...
\* A status other than OK is not an exception: the code goes on to append.
SmartWorkSelect ==
    /\ sp_work \in {"select_Drafts", "select_DRAFT"}
    /\ \E r \in {"OK", "NO", "raise"} :
          CASE r = "OK" ->
                 /\ sp_draft_mail' = "SELECTED"
                 /\ sp_work' = "append"
                 /\ UNCHANGED sp_fail
            [] r = "NO" ->
                 /\ sp_work' = "append"
                 /\ Failed
                 /\ UNCHANGED sp_draft_mail
            [] r = "raise" ->
                 /\ sp_work' = IF sp_work = "select_Drafts" THEN "select_DRAFT"
                                                            ELSE "close_nofolder"
                 /\ Failed
                 /\ UNCHANGED sp_draft_mail
    /\ UNCHANGED << sp_running, sp_processed_emails, sp_email_queue, sp_main,
                    sp_poll_vars, sp_item, sp_saved, sp_hist_vars >>
    /\ UNCHANGED << sp_before, sp_stored, id_vars, iv_vars, fa_vars, cp_vars, ap_vars >>

\* "Could not find Drafts folder": mail.close(); mail.logout(); return False.
\* A close that raises is caught by the outer except, which returns False.
SmartWorkNoFolder ==
    /\ sp_work = "close_nofolder"
    /\ \E ok \in BOOLEAN :
          sp_draft_mail' = IF ok THEN "LOGOUT" ELSE sp_draft_mail
    /\ SaveReplyReturn("False")
    /\ Failed
    /\ UNCHANGED << sp_running, sp_processed_emails, sp_email_queue, sp_main,
                    sp_poll_vars, sp_item, sp_hist_vars >>
    /\ UNCHANGED << sp_before, sp_stored, id_vars, iv_vars, fa_vars, cp_vars, ap_vars >>

\* mail.append('Drafts', ...): the status is not looked at; raising returns False.
SmartWorkAppend ==
    /\ sp_work = "append"
    /\ sp_appended' = Bump(sp_appended, sp_item)
    /\ \E r \in {"OK", "NO", "raise"} :
          /\ sp_stored' = (r = "OK")
          /\ CASE r \in {"OK", "NO"} ->
                 /\ sp_work' = "close"
                 /\ sp_fail' = (sp_fail \/ r = "NO")
                 /\ UNCHANGED sp_saved
            [] r = "raise" ->
                 /\ SaveReplyReturn("False")
                 /\ Failed
    /\ UNCHANGED << sp_running, sp_processed_emails, sp_email_queue, sp_main,
                    sp_poll_vars, sp_item, sp_draft_mail, sp_seen, sp_enq, sp_taken,
                    sp_added, sp_claims >>
    /\ UNCHANGED << sp_before, id_vars, iv_vars, fa_vars, cp_vars, ap_vars >>

\* mail.close()
SmartWorkClose ==
    /\ sp_work = "close"
    /\ \E ok \in BOOLEAN :
          IF ok
          THEN /\ sp_draft_mail' = "AUTH"
               /\ sp_work' = "logout"
               /\ UNCHANGED << sp_saved, sp_fail >>
          ELSE /\ SaveReplyReturn("False")
               /\ Failed
               /\ UNCHANGED sp_draft_mail
    /\ UNCHANGED << sp_running, sp_processed_emails, sp_email_queue, sp_main,
                    sp_poll_vars, sp_item, sp_hist_vars >>
    /\ UNCHANGED << sp_before, sp_stored, id_vars, iv_vars, fa_vars, cp_vars, ap_vars >>

\* mail.logout(); return True
SmartWorkLogout ==
    /\ sp_work = "logout"
    /\ sp_draft_mail' = "LOGOUT"
    /\ \E ok \in BOOLEAN :
          /\ SaveReplyReturn(IF ok THEN "True" ELSE "False")
          /\ sp_fail' = (sp_fail \/ ~ok)
    /\ UNCHANGED << sp_running, sp_processed_emails, sp_email_queue, sp_main,
                    sp_poll_vars, sp_item, sp_hist_vars >>
    /\ UNCHANGED << sp_before, sp_stored, id_vars, iv_vars, fa_vars, cp_vars, ap_vars >>

\* The worker takes the id of its item out of processed_emails.
WorkerForgets(processed, id) == processed \ {id}

\* What an iteration of the worker makes of processed_emails: no statement of
\* email_processor_worker or of what it calls names it.
WorkerProcessed(processed, id) == processed

\* the success / failure log line, then self.email_queue.task_done(); the
\* locals of the iteration (email_data, the draft session, the result) are gone.
SmartWorkTaskDone ==
    /\ sp_work = "task_done"
    /\ sp_work' = "head"
    /\ sp_item' = None
    /\ sp_draft_mail' = "NONE"
    /\ sp_saved' = "none"
    /\ sp_processed_emails' = WorkerProcessed(sp_processed_emails, sp_item)
    /\ sp_stored' = FALSE
    /\ UNCHANGED << sp_running, sp_email_queue, sp_main,
                    sp_poll_vars, sp_hist_vars, sp_fail >>
    /\ UNCHANGED << sp_before, id_vars, iv_vars, fa_vars, cp_vars, ap_vars >>

email_processor_worker ==
    \/ SmartWorkHead
    \/ SmartWorkGet
    \/ SmartWorkConnect
    \/ SmartWorkSelect
    \/ SmartWorkNoFolder
    \/ SmartWorkAppend
    \/ SmartWorkClose
    \/ SmartWorkLogout
    \/ SmartWorkTaskDone

-----------------------------------------------------------------------------
\* stop_monitoring, run by the main thread on KeyboardInterrupt

\* self.running = False
SmartStopFlag ==
    /\ sp_main = "sleeping"
    /\ sp_running' = FALSE
    /\ sp_main' = "put_none"
    /\ UNCHANGED << sp_processed_emails, sp_email_queue, sp_poll_vars, sp_work_vars,
                    sp_hist_vars, sp_fail >>
    /\ UNCHANGED << sp_before, sp_stored, id_vars, iv_vars, fa_vars, cp_vars, ap_vars >>

\* self.email_queue.put(None)
SmartStopPut ==
    /\ sp_main = "put_none"
    /\ ~QueueFull(sp_email_queue)
    /\ sp_email_queue' = Append(sp_email_queue, None)
    /\ sp_main' = "stopped"
    /\ UNCHANGED << sp_running, sp_processed_emails, sp_poll_vars, sp_work_vars,
                    sp_hist_vars, sp_fail >>
    /\ UNCHANGED << sp_before, sp_stored, id_vars, iv_vars, fa_vars, cp_vars, ap_vars >>

sp_stop_monitoring ==
    \/ SmartStopFlag
    \/ SmartStopPut

\* Mutant: the set of the run before is loaded again.
ProcessedPersisted(old) == old

\* __init__: self.processed_emails = set(); nothing is read from a file.
ProcessedAtStart(old) == {}

\* The process ends, at any point, and is started again: __init__ and
\* start_monitoring run in a new process, whose objects and threads are new.
SmartRestart ==
    /\ sp_main # "off"
    /\ sp_before' = sp_processed_emails
    /\ sp_processed_emails' = ProcessedAtStart(sp_processed_emails)
    /\ sp_running' = TRUE
    /\ sp_email_queue' = << >>
    /\ sp_main' = "sleeping"
    /\ sp_poll' = "head"
    /\ sp_mail' = "NONE"
    /\ sp_email_ids' = << >>
    /\ sp_emails' = << >>
    /\ sp_new_emails' = << >>
    /\ sp_put_i' = 0
    /\ sp_work' = "head"
    /\ sp_item' = None
    /\ sp_draft_mail' = "NONE"
    /\ sp_saved' = "none"
    /\ sp_seen' = {}
    /\ sp_enq' = [i \in Ids |-> 0]
    /\ sp_taken' = {}
    /\ sp_added' = [i \in Ids |-> 0]
    /\ sp_appended' = [i \in Ids |-> 0]
    /\ sp_fail' = FALSE
    /\ sp_claims' = [i \in Ids |-> 0]
    /\ sp_stored' = FALSE
    /\ UNCHANGED << id_vars, iv_vars, fa_vars, cp_vars, ap_vars >>

NextSmart ==
    \/ smart_polling_loop
    \/ email_processor_worker
    \/ sp_stop_monitoring

-----------------------------------------------------------------------------
\* ZohoEmailIdleProcessor

\* The processor as constructed, not started.
IdleOff ==
    /\ id_running = FALSE
    /\ id_processed_emails = {}
    /\ id_mail = "None"
    /\ id_main = "off"
    /\ id_main_op = "none"
    /\ id_watch = "off"
    /\ id_watch_op = "none"
    /\ id_fallback = FALSE
    /\ id_email_ids = << >>
    /\ id_idling = FALSE
    /\ id_err = FALSE
    /\ id_unsupported = FALSE
    /\ id_handled = [i \in Ids |-> 0]
    /\ id_attempted = {}
    /\ id_after = "none"
    /\ id_found = 0
    /\ id_connect_failed = FALSE

\* start_monitoring has set running and started the watcher thread.
IdleStarted ==
    /\ id_running = TRUE
    /\ id_processed_emails = {}
    /\ id_mail = "None"
    /\ id_main = "sleeping"
    /\ id_main_op = "none"
    /\ id_watch = "head"
    /\ id_watch_op = "none"
    /\ id_fallback = FALSE
    /\ id_email_ids = << >>
    /\ id_idling = FALSE
    /\ id_err = FALSE
    /\ id_unsupported = FALSE
    /\ id_handled = [i \in Ids |-> 0]
    /\ id_attempted = {}
    /\ id_after = "none"
    /\ id_found = 0
    /\ id_connect_failed = FALSE

id_main_vars == << id_main, id_main_op >>
id_hist_vars == << id_idling, id_err, id_unsupported, id_handled, id_attempted >>
id_hist2_vars == << id_after, id_found, id_connect_failed >>

\* The call on self.mail the watcher makes at each position of its code.
WatchOpAt(pc) ==
    CASE pc = "select" -> "select"
      [] pc = "send_idle" -> "IDLE"
      [] pc \in {"read_idle", "read_notif", "read_done_exists", "read_done_timeout"}
            -> "readline"
      [] pc = "wait" -> "wait"
      [] pc \in {"done_exists", "done_timeout"} -> "DONE"
      [] pc = "recent" -> "search"
      [] pc = "fetch" -> "fetch"
      [] pc = "except_close" -> "close"
      [] pc = "except_logout" -> "logout"
      [] OTHER -> "none"

\* The watcher's outstanding call is the one of position pc: it can return now.
Returning(pc) == id_watch = pc /\ id_watch_op = WatchOpAt(pc)

\* A call can only come back without raising on a session that is logged in.
Alive == id_mail \in {"AUTH", "SELECTED"}

\* The watcher starts the call of its position: the call is now outstanding.
IdleWatchIssue ==
    /\ id_watch_op = "none"
    /\ WatchOpAt(id_watch) # "none"
    /\ id_watch_op' = WatchOpAt(id_watch)
    /\ UNCHANGED << id_running, id_processed_emails, id_mail, id_main_vars, id_watch,
                    id_fallback, id_email_ids, id_hist_vars >>
    /\ UNCHANGED id_hist2_vars
    /\ UNCHANGED << sp_vars, iv_vars, fa_vars, cp_vars, ap_vars >>

\* The exception handler of the wait loop (lines 236-241): log and break.
InnerExcept ==
    /\ id_watch' = "idle_head"
    /\ id_watch_op' = "none"
    /\ id_err' = TRUE

\* The exception leaves idle_loop: the watcher thread ends.
OuterExceptEndsLoop ==
    /\ id_watch' = "done"
    /\ id_watch_op' = "none"
    /\ id_err' = TRUE

\* The exception handler of idle_loop (line 248): goes on to close and logout.
OuterExcept ==
    /\ id_watch' = "except_close"
    /\ id_watch_op' = "none"
    /\ id_err' = TRUE

\* Mutant: a failed connect ends the watcher.
AfterConnectFailureIsFatal == "done"

\* if not self.mail: logger.error(...); time.sleep(30); continue
AfterConnectFailure == "connect_sleep"

\* Mutant: the timeout branch runs a drain before it waits again.
AfterTimeoutDrains == "recent"

\* The break of line 234 leaves the wait loop for the head of the loop of
\* line 197.
AfterTimeout == "idle_head"

\* Mutant: a drain that found nothing new leaves the session and reconnects.
AfterDrainReconnectsOnZero(found) == IF found = 0 THEN "head" ELSE "idle_head"

\* The break of line 227, after process_recent_emails has returned, leaves the
\* wait loop for the head of the loop of line 197, whatever was found.
AfterDrain(found) == "idle_head"

\* How many new messages the drain that has just returned handled.
DrainTag(found) ==
    CASE found = 0 -> "drain_zero"
      [] found = 1 -> "drain_one"
      [] OTHER -> "drain_many"

\* process_recent_emails returns to its caller: the break of line 227, or the
\* sleep of fallback_polling.
RecentReturn ==
    /\ id_watch' = IF id_fallback THEN "fallback_sleep" ELSE AfterDrain(id_found)
    /\ id_after' = IF id_fallback THEN id_after ELSE DrainTag(id_found)
    /\ id_found' = 0
    /\ id_watch_op' = "none"
    /\ id_email_ids' = << >>

\* Mutant: process_recent_emails lets the exception out, up to the handler of
\* idle_loop.
SearchRaisedPropagates ==
    /\ OuterExcept
    /\ id_email_ids' = << >>
    /\ id_found' = 0
    /\ UNCHANGED id_after

\* except Exception of process_recent_emails (lines 273-274): log and return.
SearchRaised ==
    /\ RecentReturn
    /\ id_err' = TRUE

\* while self.running:   (line 183)
IdleWatchHead ==
    /\ id_watch = "head"
    /\ id_watch' = IF id_running THEN "connect" ELSE "done"
    /\ UNCHANGED << id_running, id_processed_emails, id_mail, id_main_vars, id_watch_op,
                    id_fallback, id_email_ids, id_hist_vars >>
    /\ UNCHANGED id_hist2_vars
    /\ UNCHANGED << sp_vars, iv_vars, fa_vars, cp_vars, ap_vars >>

\* self.mail = self.connect_imap(); on failure sleep 30 and continue.
\* A call the main thread still has outstanding stays on the old session object.
IdleWatchConnect ==
    /\ id_watch = "connect"
    /\ \E ok \in BOOLEAN :
          IF ok
          THEN /\ id_mail' = "AUTH"
               /\ id_watch' = "select"
          ELSE /\ id_mail' = "None"
               /\ id_watch' = AfterConnectFailure
    /\ id_connect_failed' = (id_connect_failed \/ id_mail' = "None")
    /\ id_idling' = FALSE
    /\ id_err' = FALSE
    /\ id_main_op' = IF id_main_op = "none" THEN "none" ELSE "stale"
    /\ UNCHANGED << id_running, id_processed_emails, id_main, id_watch_op, id_fallback,
                    id_email_ids, id_unsupported, id_handled,
                    id_attempted >>
    /\ UNCHANGED << id_after, id_found >>
    /\ UNCHANGED << sp_vars, iv_vars, fa_vars, cp_vars, ap_vars >>

\* time.sleep(30) after a failed connect, after the handler of line 248, and
\* inside fallback_polling.
IdleWatchSleep ==
    /\ id_watch \in {"connect_sleep", "except_sleep", "fallback_sleep"}
    /\ id_watch' = IF id_watch = "fallback_sleep" THEN "fallback_head" ELSE "head"
    /\ UNCHANGED << id_running, id_processed_emails, id_mail, id_main_vars, id_watch_op,
                    id_fallback, id_email_ids, id_hist_vars >>
    /\ UNCHANGED id_hist2_vars
    /\ UNCHANGED << sp_vars, iv_vars, fa_vars, cp_vars, ap_vars >>

\* self.mail.select('INBOX')
IdleWatchSelect ==
    /\ Returning("select")
    /\ \/ /\ Alive
          /\ \E r \in {"SELECTED", "AUTH"} : id_mail' = r     \* OK, or NO (not looked at)
          /\ id_watch' = "idle_head"
          /\ id_watch_op' = "none"
          /\ UNCHANGED id_err
       \/ /\ OuterExcept
          /\ UNCHANGED id_mail
    /\ UNCHANGED << id_running, id_processed_emails, id_main_vars, id_fallback,
                    id_email_ids, id_idling, id_unsupported, id_handled,
                    id_attempted >>
    /\ UNCHANGED id_hist2_vars
    /\ UNCHANGED << sp_vars, iv_vars, fa_vars, cp_vars, ap_vars >>

\* while self.running:   (line 197)
IdleWatchIdleHead ==
    /\ id_watch = "idle_head"
    /\ id_watch' = IF id_running THEN "send_idle" ELSE "head"
    /\ UNCHANGED << id_running, id_processed_emails, id_mail, id_main_vars, id_watch_op,
                    id_fallback, id_email_ids, id_hist_vars >>
    /\ id_after' = IF id_running THEN id_after ELSE "none"
    /\ UNCHANGED << id_found, id_connect_failed >>
    /\ UNCHANGED << sp_vars, iv_vars, fa_vars, cp_vars, ap_vars >>

\* self.mail.send(f'{tag} IDLE\r\n')
IdleWatchSendIdle ==
    /\ Returning("send_idle")
    /\ \/ /\ Alive
          /\ id_idling' = TRUE
          /\ id_watch' = "read_idle"
          /\ id_watch_op' = "none"
          /\ UNCHANGED id_err
       \/ /\ OuterExcept
          /\ UNCHANGED id_idling
    /\ UNCHANGED << id_running, id_processed_emails, id_mail, id_main_vars, id_fallback,
                    id_email_ids, id_unsupported, id_handled,
                    id_attempted >>
    /\ id_after' = "none"
    /\ UNCHANGED << id_found, id_connect_failed >>
    /\ UNCHANGED << sp_vars, iv_vars, fa_vars, cp_vars, ap_vars >>

\* response = self.mail.readline(): '+ idling' enters the wait loop, anything
\* else calls fallback_polling.
IdleWatchReadIdle ==
    /\ Returning("read_idle")
    /\ \/ /\ Alive
          /\ id_watch' = "wait_head"
          /\ id_watch_op' = "none"
          /\ UNCHANGED << id_fallback, id_idling, id_err, id_unsupported >>
       \/ /\ id_watch' = "fallback_head"
          /\ id_watch_op' = "none"
          /\ id_fallback' = TRUE
          /\ id_unsupported' = TRUE
          /\ id_idling' = FALSE
          /\ UNCHANGED id_err
       \/ /\ OuterExcept
          /\ UNCHANGED << id_fallback, id_idling, id_unsupported >>
    /\ UNCHANGED << id_running, id_processed_emails, id_mail, id_main_vars,
                    id_email_ids, id_handled, id_attempted >>
    /\ UNCHANGED id_hist2_vars
    /\ UNCHANGED << sp_vars, iv_vars, fa_vars, cp_vars, ap_vars >>

\* while self.running:   (line 208)
IdleWatchWaitHead ==
    /\ id_watch = "wait_head"
    /\ id_watch' = IF id_running THEN "wait" ELSE "idle_head"
    /\ UNCHANGED << id_running, id_processed_emails, id_mail, id_main_vars, id_watch_op,
                    id_fallback, id_email_ids, id_hist_vars >>
    /\ UNCHANGED id_hist2_vars
    /\ UNCHANGED << sp_vars, iv_vars, fa_vars, cp_vars, ap_vars >>

\* ready, _, _ = select.select([self.mail.sock], [], [], 30)
IdleWatchWait ==
    /\ Returning("wait")
    /\ \/ /\ Alive
          /\ \E next \in {"read_notif", "done_timeout"} : id_watch' = next
          /\ id_watch_op' = "none"
          /\ UNCHANGED id_err
       \/ InnerExcept
    /\ UNCHANGED << id_running, id_processed_emails, id_mail, id_main_vars, id_fallback,
                    id_email_ids, id_idling, id_unsupported, id_handled,
                    id_attempted >>
    /\ UNCHANGED id_hist2_vars
    /\ UNCHANGED << sp_vars, iv_vars, fa_vars, cp_vars, ap_vars >>

\* response = self.mail.readline(): EXISTS leaves IDLE and drains, anything
\* else waits again.
IdleWatchReadNotif ==
    /\ Returning("read_notif")
    /\ \/ /\ Alive                              \* b'EXISTS' in response
          /\ id_watch' = "done_exists"
          /\ id_watch_op' = "none"
          /\ UNCHANGED id_err
       \/ /\ id_watch' = "wait_head"             \* another line, or the empty line of EOF
          /\ id_watch_op' = "none"
          /\ UNCHANGED id_err
       \/ InnerExcept
    /\ UNCHANGED << id_running, id_processed_emails, id_mail, id_main_vars, id_fallback,
                    id_email_ids, id_idling, id_unsupported, id_handled,
                    id_attempted >>
    /\ UNCHANGED id_hist2_vars
    /\ UNCHANGED << sp_vars, iv_vars, fa_vars, cp_vars, ap_vars >>

\* self.mail.send(b'DONE\r\n')   (lines 222 and 232)
IdleWatchSendDone ==
    /\ \/ Returning("done_exists")
       \/ Returning("done_timeout")
    /\ \/ /\ Alive
          /\ id_idling' = FALSE
          /\ id_watch' = IF id_watch = "done_exists" THEN "read_done_exists"
                                                     ELSE "read_done_timeout"
          /\ id_watch_op' = "none"
          /\ UNCHANGED id_err
       \/ /\ InnerExcept
          /\ UNCHANGED id_idling
    /\ UNCHANGED << id_running, id_processed_emails, id_mail, id_main_vars, id_fallback,
                    id_email_ids, id_unsupported, id_handled,
                    id_attempted >>
    /\ UNCHANGED id_hist2_vars
    /\ UNCHANGED << sp_vars, iv_vars, fa_vars, cp_vars, ap_vars >>

\* self.mail.readline() after DONE: then process_recent_emails (line 226), or
\* the break of line 234.
IdleWatchReadDone ==
    /\ \/ Returning("read_done_exists")
       \/ Returning("read_done_timeout")
    /\ \/ /\ id_watch' = IF id_watch = "read_done_exists" THEN "recent" ELSE AfterTimeout
          /\ id_after' = IF id_watch = "read_done_exists" THEN id_after ELSE "timeout"
          /\ id_watch_op' = "none"
          /\ UNCHANGED id_err
       \/ /\ InnerExcept
          /\ UNCHANGED id_after
    /\ UNCHANGED << id_running, id_processed_emails, id_mail, id_main_vars, id_fallback,
                    id_email_ids, id_idling, id_unsupported, id_handled,
                    id_attempted >>
    /\ UNCHANGED << id_found, id_connect_failed >>
    /\ UNCHANGED << sp_vars, iv_vars, fa_vars, cp_vars, ap_vars >>

\* status, messages = self.mail.search(None, 'UNSEEN')   (process_recent_emails)
\* Not OK returns; raising is caught by process_recent_emails, which returns.
IdleWatchSearch ==
    /\ Returning("recent")
    /\ \/ /\ id_mail = "SELECTED"
          /\ \E ids \in SearchResults : id_email_ids' = ids
          /\ id_watch' = "ids_loop"
          /\ id_watch_op' = "none"
          /\ UNCHANGED << id_err, id_after, id_found >>
       \/ /\ Alive                                              \* status != 'OK'
          /\ RecentReturn
          /\ UNCHANGED id_err
       \/ SearchRaised
    /\ UNCHANGED << id_running, id_processed_emails, id_mail, id_main_vars, id_fallback,
                    id_idling, id_unsupported, id_handled,
                    id_attempted >>
    /\ UNCHANGED id_connect_failed
    /\ UNCHANGED << sp_vars, iv_vars, fa_vars, cp_vars, ap_vars >>

\* for email_id in email_ids: if email_id.decode() not in self.processed_emails:
\*     self.process_new_email(email_id)
IdleWatchIter ==
    /\ id_watch = "ids_loop"
    /\ IF id_email_ids = << >>
       THEN /\ RecentReturn
            /\ UNCHANGED id_handled
       ELSE IF Head(id_email_ids) \in id_processed_emails
            THEN /\ id_email_ids' = Tail(id_email_ids)
                 /\ UNCHANGED << id_watch, id_watch_op, id_handled, id_after, id_found >>
            ELSE /\ id_watch' = "fetch"
                 /\ id_handled' = Bump(id_handled, Head(id_email_ids))
                 /\ id_found' = IF id_found < MaxCount THEN id_found + 1 ELSE id_found
                 /\ UNCHANGED << id_watch_op, id_email_ids, id_after >>
    /\ UNCHANGED << id_running, id_processed_emails, id_mail, id_main_vars, id_fallback,
                    id_idling, id_err, id_unsupported,
                    id_attempted >>
    /\ UNCHANGED id_connect_failed
    /\ UNCHANGED << sp_vars, iv_vars, fa_vars, cp_vars, ap_vars >>

\* status, msg_data = self.mail.fetch(email_id, '(RFC822)')   (process_new_email)
\* Not OK returns; raising is caught by process_new_email, which returns.
IdleWatchFetch ==
    /\ Returning("fetch")
    /\ id_watch_op' = "none"
    /\ \/ /\ id_mail = "SELECTED"
          /\ id_watch' = "save_draft"
          /\ UNCHANGED id_err
       \/ /\ Alive                                              \* status != 'OK'
          /\ id_watch' = "add"
          /\ UNCHANGED id_err
       \/ /\ id_watch' = "add"                                  \* raised (line 178)
          /\ id_err' = TRUE
    /\ UNCHANGED << id_running, id_processed_emails, id_mail, id_main_vars, id_fallback,
                    id_email_ids, id_idling, id_unsupported, id_handled,
                    id_attempted >>
    /\ UNCHANGED id_hist2_vars
    /\ UNCHANGED << sp_vars, iv_vars, fa_vars, cp_vars, ap_vars >>

\* Parsing the fetched message, then create_standard_reply and
\* save_reply_as_draft, which works on a session of its own. Parsing that
\* raises is caught by process_new_email before any draft is attempted.
IdleWatchSaveDraft ==
    /\ id_watch = "save_draft"
    /\ id_watch' = "add"
    /\ \E parsed \in BOOLEAN :
          id_attempted' = IF parsed THEN id_attempted \cup {Head(id_email_ids)}
                                    ELSE id_attempted
    /\ UNCHANGED << id_running, id_processed_emails, id_mail, id_main_vars, id_watch_op,
                    id_fallback, id_email_ids, id_idling, id_err, id_unsupported,
                    id_handled >>
    /\ UNCHANGED id_hist2_vars
    /\ UNCHANGED << sp_vars, iv_vars, fa_vars, cp_vars, ap_vars >>

\* self.processed_emails.add(email_id.decode())
IdleWatchAdd ==
    /\ id_watch = "add"
    /\ id_processed_emails' = id_processed_emails \cup {Head(id_email_ids)}
    /\ id_email_ids' = Tail(id_email_ids)
    /\ id_watch' = "ids_loop"
    /\ UNCHANGED << id_running, id_mail, id_main_vars, id_watch_op, id_fallback,
                    id_hist_vars >>
    /\ UNCHANGED id_hist2_vars
    /\ UNCHANGED << sp_vars, iv_vars, fa_vars, cp_vars, ap_vars >>

\* fallback_polling: while self.running: self.process_recent_emails(); sleep.
\* When the loop ends, fallback_polling returns to the break of line 246.
IdleWatchFallbackHead ==
    /\ id_watch = "fallback_head"
    /\ IF id_running
       THEN /\ id_watch' = "recent"
            /\ UNCHANGED id_fallback
       ELSE /\ id_watch' = "head"
            /\ id_fallback' = FALSE
    /\ UNCHANGED << id_running, id_processed_emails, id_mail, id_main_vars, id_watch_op,
                    id_email_ids, id_hist_vars >>
    /\ UNCHANGED id_hist2_vars
    /\ UNCHANGED << sp_vars, iv_vars, fa_vars, cp_vars, ap_vars >>

\* if self.mail: try: self.mail.close()   -- a close that raises skips the logout
IdleWatchExceptClose ==
    /\ Returning("except_close")
    /\ id_watch_op' = "none"
    /\ \/ /\ id_mail = "SELECTED"
          /\ id_mail' = "AUTH"
          /\ id_watch' = "except_logout"
       \/ /\ id_watch' = "except_sleep"                         \* except: pass
          /\ UNCHANGED id_mail
    /\ UNCHANGED << id_running, id_processed_emails, id_main_vars, id_fallback,
                    id_email_ids, id_hist_vars >>
    /\ UNCHANGED id_hist2_vars
    /\ UNCHANGED << sp_vars, iv_vars, fa_vars, cp_vars, ap_vars >>

\* self.mail.logout()
IdleWatchExceptLogout ==
    /\ Returning("except_logout")
    /\ id_watch_op' = "none"
    /\ id_mail' = "LOGOUT"
    /\ id_watch' = "except_sleep"
    /\ UNCHANGED << id_running, id_processed_emails, id_main_vars, id_fallback,
                    id_email_ids, id_hist_vars >>
    /\ UNCHANGED id_hist2_vars
    /\ UNCHANGED << sp_vars, iv_vars, fa_vars, cp_vars, ap_vars >>

idle_loop ==
    \/ IdleWatchIssue
    \/ IdleWatchHead
    \/ IdleWatchConnect
    \/ IdleWatchSleep
    \/ IdleWatchSelect
    \/ IdleWatchIdleHead
    \/ IdleWatchSendIdle
    \/ IdleWatchReadIdle
    \/ IdleWatchWaitHead
    \/ IdleWatchWait
    \/ IdleWatchReadNotif
    \/ IdleWatchSendDone
    \/ IdleWatchReadDone
    \/ IdleWatchSearch
    \/ IdleWatchIter
    \/ IdleWatchFetch
    \/ IdleWatchSaveDraft
    \/ IdleWatchAdd
    \/ IdleWatchFallbackHead
    \/ IdleWatchExceptClose
    \/ IdleWatchExceptLogout

-----------------------------------------------------------------------------
\* stop_monitoring of ZohoEmailIdleProcessor, run by the main thread

\* The call on self.mail the main thread makes at each position.
MainOpAt(pc) ==
    CASE pc = "send_done" -> "DONE"
      [] pc = "close" -> "close"
      [] pc = "logout" -> "logout"
      [] OTHER -> "none"

\* self.running = False
IdleStopFlag ==
    /\ id_main = "sleeping"
    /\ id_running' = FALSE
    /\ id_main' = "check_mail"
    /\ UNCHANGED << id_processed_emails, id_mail, id_main_op, id_watch, id_watch_op,
                    id_fallback, id_email_ids, id_hist_vars >>
    /\ UNCHANGED id_hist2_vars
    /\ UNCHANGED << sp_vars, iv_vars, fa_vars, cp_vars, ap_vars >>

\* if self.mail:
IdleStopCheck ==
    /\ id_main = "check_mail"
    /\ id_main' = IF id_mail = "None" THEN "stopped" ELSE "send_done"
    /\ UNCHANGED << id_running, id_processed_emails, id_mail, id_main_op, id_watch,
                    id_watch_op, id_fallback, id_email_ids, id_hist_vars >>
    /\ UNCHANGED id_hist2_vars
    /\ UNCHANGED << sp_vars, iv_vars, fa_vars, cp_vars, ap_vars >>

\* The main thread starts send / close / logout on whatever self.mail is now;
\* on None the attribute access raises and the except: pass ends the call.
IdleStopIssue ==
    /\ id_main_op = "none"
    /\ MainOpAt(id_main) # "none"
    /\ IF id_mail = "None"
       THEN /\ id_main' = "stopped"
            /\ UNCHANGED id_main_op
       ELSE /\ id_main_op' = MainOpAt(id_main)
            /\ UNCHANGED id_main
    /\ UNCHANGED << id_running, id_processed_emails, id_mail, id_watch, id_watch_op,
                    id_fallback, id_email_ids, id_hist_vars >>
    /\ UNCHANGED id_hist2_vars
    /\ UNCHANGED << sp_vars, iv_vars, fa_vars, cp_vars, ap_vars >>

\* self.mail.send(b'DONE\r\n'); self.mail.close(); self.mail.logout()
\* Any of them raising ends stop_monitoring (except: pass). A call that was
\* started on a session the watcher has since replaced changes nothing here.
IdleStopReturn ==
    /\ id_main_op # "none"
    /\ id_main_op' = "none"
    /\ LET stale == id_main_op = "stale" IN
       \/ /\ id_main = "send_done"
          /\ stale \/ Alive
          /\ id_main' = "close"
          /\ id_idling' = IF stale THEN id_idling ELSE FALSE
          /\ UNCHANGED id_mail
       \/ /\ id_main = "close"
          /\ stale \/ id_mail = "SELECTED"
          /\ id_main' = "logout"
          /\ id_mail' = IF stale THEN id_mail ELSE "AUTH"
          /\ UNCHANGED id_idling
       \/ /\ id_main = "logout"
          /\ id_main' = "stopped"
          /\ id_mail' = IF stale THEN id_mail ELSE "LOGOUT"
          /\ UNCHANGED id_idling
       \/ /\ id_main' = "stopped"                               \* raised
          /\ UNCHANGED << id_mail, id_idling >>
    /\ UNCHANGED << id_running, id_processed_emails, id_watch, id_watch_op, id_fallback,
                    id_email_ids, id_err, id_unsupported, id_handled,
                    id_attempted >>
    /\ UNCHANGED id_hist2_vars
    /\ UNCHANGED << sp_vars, iv_vars, fa_vars, cp_vars, ap_vars >>

id_stop_monitoring ==
    \/ IdleStopFlag
    \/ IdleStopCheck
    \/ IdleStopIssue
    \/ IdleStopReturn

NextIdle ==
    \/ idle_loop
    \/ id_stop_monitoring

-----------------------------------------------------------------------------
\* The timing of smart_polling_loop: the adaptive interval and the sleep.
\* get_new_emails is seen here as the time it takes and whether it found
\* anything; time is counted in whole seconds since last_email_time.

\* Intervals are counted in units of 1/Scale s, fine enough for nine
\* adjustments by 1.2 from 60 s, and for five halvings, to be exact.
Scale == (5 ^ 8) * (2 ^ 3)

\* self.current_interval = 60
current_interval == 60

\* self.min_interval = 10
min_interval == 10

\* self.max_interval = 300
max_interval == 300

\* if time_since_last_email > 600
idle_threshold == 600

\* The 1 of max(1, ...)
min_sleep == 1

\* What a call can take, in s: nothing, a second, just the longest interval,
\* and more than the longest interval.
TimeSteps == {0, min_sleep, max_interval, max_interval + 1}

Max(a, b) == IF a >= b THEN a ELSE b

Min(a, b) == IF a <= b THEN a ELSE b

\* Mutant: the halved interval is not held at min_interval.
AdjustFoundNoFloor(cur) == cur \div 2

\* max(self.min_interval, self.current_interval * 0.5)
AdjustFound(cur) == Max(min_interval * Scale, cur \div 2)

\* min(self.max_interval, self.current_interval * 1.2)
AdjustIdle(cur) == Min(max_interval * Scale, cur + (cur \div 5))

\* Mutant: a message found does not count as activity.
SinceKept(since) == since

\* self.last_email_time = datetime.now(): no time has passed since.
SinceOnFound(since) == 0

\* Mutant: exactly 600 s without a message already stretch the interval.
IdleAtThreshold(since) == since >= idle_threshold

\* if time_since_last_email > 600:
IdleLongEnough(since) == since > idle_threshold

\* Mutant: the sleep is what is left of the interval, even when nothing is.
SleepTimeNoFloor(cur, proc) == cur - proc * Scale

\* sleep_time = max(1, self.current_interval - processing_time)
SleepTime(cur, proc) == Max(min_sleep * Scale, cur - proc * Scale)

\* d more seconds have passed since last_email_time.
Later(since, d) == Min(MaxIdle, since + d)

\* The processor as constructed; the polling loop is not running.
IvOff ==
    /\ iv_pc = "off"
    /\ iv_current_interval = current_interval * Scale
    /\ iv_time_since_last_email = 0
    /\ iv_found = FALSE
    /\ iv_processing_time = 0
    /\ iv_sleep_time = 0
    /\ iv_prev_interval = current_interval * Scale
    /\ iv_prev_since = 0

\* start_monitoring has started the polling thread.
IvStarted ==
    /\ iv_pc = "poll"
    /\ iv_current_interval = current_interval * Scale
    /\ iv_time_since_last_email = 0
    /\ iv_found = FALSE
    /\ iv_processing_time = 0
    /\ iv_sleep_time = 0
    /\ iv_prev_interval = current_interval * Scale
    /\ iv_prev_since = 0

\* start_time = time.time(); new_emails = self.get_new_emails(); the puts;
\* processing_time is the time all this took.
IvPoll ==
    /\ iv_pc = "poll"
    /\ \E d \in TimeSteps :
          /\ iv_processing_time' = d
          /\ iv_time_since_last_email' = Later(iv_time_since_last_email, d)
    /\ \E f \in BOOLEAN : iv_found' = f
    /\ iv_pc' = "adjust"
    /\ UNCHANGED << iv_current_interval, iv_sleep_time, iv_prev_interval, iv_prev_since >>
    /\ UNCHANGED << sp_vars, id_vars, fa_vars, cp_vars, ap_vars >>

\* self.adjust_polling_interval(new_emails). The step is taken only where the
\* division is exact in units of 1/Scale s.
IvAdjust ==
    /\ iv_pc = "adjust"
    /\ iv_prev_interval' = iv_current_interval
    /\ iv_prev_since' = iv_time_since_last_email
    /\ IF iv_found
       THEN /\ iv_current_interval % 2 = 0
            /\ iv_current_interval' = AdjustFound(iv_current_interval)
            /\ iv_time_since_last_email' = SinceOnFound(iv_time_since_last_email)
       ELSE IF IdleLongEnough(iv_time_since_last_email)
            THEN /\ iv_current_interval % 5 = 0
                 /\ iv_current_interval' = AdjustIdle(iv_current_interval)
                 /\ UNCHANGED iv_time_since_last_email
            ELSE UNCHANGED << iv_current_interval, iv_time_since_last_email >>
    /\ iv_pc' = "sleep_time"
    /\ UNCHANGED << iv_found, iv_processing_time, iv_sleep_time >>
    /\ UNCHANGED << sp_vars, id_vars, fa_vars, cp_vars, ap_vars >>

\* sleep_time = max(1, self.current_interval - processing_time)
IvSleepTime ==
    /\ iv_pc = "sleep_time"
    /\ iv_sleep_time' = SleepTime(iv_current_interval, iv_processing_time)
    /\ iv_pc' = "sleeping"
    /\ UNCHANGED << iv_current_interval, iv_time_since_last_email, iv_found,
                    iv_processing_time, iv_prev_interval, iv_prev_since >>
    /\ UNCHANGED << sp_vars, id_vars, fa_vars, cp_vars, ap_vars >>

\* time.sleep(sleep_time) returns, not before sleep_time has passed, and the
\* loop comes round to its next cycle.
IvSleep ==
    /\ iv_pc = "sleeping"
    /\ \E d \in TimeSteps :
          /\ d * Scale >= iv_sleep_time
          /\ iv_time_since_last_email' = Later(iv_time_since_last_email, d)
    /\ iv_pc' = "poll"
    /\ UNCHANGED << iv_current_interval, iv_found, iv_processing_time, iv_sleep_time,
                    iv_prev_interval, iv_prev_since >>
    /\ UNCHANGED << sp_vars, id_vars, fa_vars, cp_vars, ap_vars >>

NextInterval ==
    \/ IvPoll
    \/ IvAdjust
    \/ IvSleepTime
    \/ IvSleep

-----------------------------------------------------------------------------
\* ZohoEmailProcessor (zoho_faiss.py): run_continuous, one thread.

fa_fetch_vars == << fa_mail, fa_email_ids, fa_emails, fa_result, fa_refused, fa_raised >>
fa_draft_vars == << fa_draft_mail, fa_folder, fa_target >>

\* As constructed, run_continuous not called.
FaissOff ==
    /\ fa_pc = "off"
    /\ fa_processed_emails = { }
    /\ fa_mail = "NONE"
    /\ fa_email_ids = << >>
    /\ fa_emails = << >>
    /\ fa_todo = << >>
    /\ fa_draft_mail = "NONE"
    /\ fa_folder = "none"
    /\ fa_result = << >>
    /\ fa_refused = { }
    /\ fa_raised = FALSE
    /\ fa_target = "none"

\* processor.run_continuous(check_interval=60) has been called.
FaissStarted ==
    /\ fa_pc = "process"
    /\ fa_processed_emails = { }
    /\ fa_mail = "NONE"
    /\ fa_email_ids = << >>
    /\ fa_emails = << >>
    /\ fa_todo = << >>
    /\ fa_draft_mail = "NONE"
    /\ fa_folder = "none"
    /\ fa_result = << >>
    /\ fa_refused = { }
    /\ fa_raised = FALSE
    /\ fa_target = "none"

\* get_unread_emails returns `result` to process_emails.
GetUnreadReturn(result) ==
    /\ fa_emails' = result
    /\ fa_todo' = result
    /\ fa_email_ids' = << >>
    /\ fa_pc' = "emails"

\* An exception inside get_unread_emails: logged, return [].
GetUnreadRaised ==
    /\ GetUnreadReturn(<< >>)
    /\ fa_raised' = TRUE

\* self.process_emails(): emails = self.get_unread_emails()
FaProcess ==
    /\ fa_pc = "process"
    /\ fa_pc' = "connect"
    /\ UNCHANGED << fa_processed_emails, fa_fetch_vars, fa_todo, fa_draft_vars >>
    /\ UNCHANGED << sp_vars, id_vars, iv_vars, cp_vars, ap_vars >>

\* mail = self.connect_imap(); if not mail: return []
FaConnect ==
    /\ fa_pc = "connect"
    /\ \E ok \in BOOLEAN :
          IF ok
          THEN /\ fa_mail' = "AUTH"
               /\ fa_pc' = "select"
               /\ UNCHANGED << fa_email_ids, fa_emails, fa_todo >>
          ELSE /\ fa_mail' = "NONE"
               /\ GetUnreadReturn(<< >>)
    /\ UNCHANGED << fa_processed_emails, fa_result, fa_refused, fa_raised, fa_draft_vars >>
    /\ UNCHANGED << sp_vars, id_vars, iv_vars, cp_vars, ap_vars >>

\* mail.select('INBOX'): its status is not looked at; raising ends the call.
FaSelect ==
    /\ fa_pc = "select"
    /\ \E r \in {"OK", "NO", "raise"} :
          CASE r = "OK" ->
                 /\ fa_mail' = "SELECTED"
                 /\ fa_pc' = "search"
                 /\ UNCHANGED << fa_email_ids, fa_emails, fa_todo, fa_raised >>
            [] r = "NO" ->
                 /\ fa_pc' = "search"
                 /\ UNCHANGED << fa_mail, fa_email_ids, fa_emails, fa_todo, fa_raised >>
            [] r = "raise" ->
                 /\ GetUnreadRaised
                 /\ UNCHANGED fa_mail
    /\ UNCHANGED << fa_processed_emails, fa_result, fa_refused, fa_draft_vars >>
    /\ UNCHANGED << sp_vars, id_vars, iv_vars, cp_vars, ap_vars >>

\* status, messages = mail.search(None, 'UNSEEN'): not OK returns [], raising
\* returns []. A search outside the SELECTED state raises.
FaSearch ==
    /\ fa_pc = "search"
    /\ \/ /\ fa_mail = "SELECTED"
          /\ \E ids \in SearchResults :
                /\ fa_email_ids' = ids
                /\ fa_result' = ids
                /\ fa_emails' = << >>
                /\ fa_pc' = "loop"
                /\ UNCHANGED << fa_todo, fa_raised >>
       \/ /\ fa_mail = "SELECTED"
          /\ GetUnreadReturn(<< >>)             \* status != 'OK'
          /\ UNCHANGED << fa_result, fa_raised >>
       \/ /\ GetUnreadRaised
          /\ UNCHANGED fa_result
    /\ UNCHANGED << fa_processed_emails, fa_mail, fa_refused, fa_draft_vars >>
    /\ UNCHANGED << sp_vars, id_vars, iv_vars, cp_vars, ap_vars >>

\* A fetch that is refused ends the call as an exception does.
FetchRefusedReturns ==
    /\ fa_refused' = fa_refused \cup {Head(fa_email_ids)}
    /\ GetUnreadReturn(<< >>)

\* status, msg_data = mail.fetch(...); if status != 'OK': continue
FetchRefused ==
    /\ fa_refused' = fa_refused \cup {Head(fa_email_ids)}
    /\ fa_email_ids' = Tail(fa_email_ids)
    /\ UNCHANGED << fa_pc, fa_emails, fa_todo >>

\* One iteration of `for email_id in email_ids`, or the end of the loop.
FaIter ==
    /\ fa_pc = "loop"
    /\ IF fa_email_ids = << >>
       THEN /\ fa_pc' = "close"
            /\ UNCHANGED << fa_processed_emails, fa_email_ids, fa_emails, fa_todo,
                            fa_refused, fa_raised >>
       ELSE LET id == Head(fa_email_ids) IN
            IF id \in fa_processed_emails
            THEN /\ fa_email_ids' = Tail(fa_email_ids)         \* continue
                 /\ UNCHANGED << fa_processed_emails, fa_pc, fa_emails, fa_todo,
                                 fa_refused, fa_raised >>
            ELSE \E r \in {"OK", "NO", "raise"} :
                    CASE r = "OK" ->                            \* fetched and parsed
                           /\ fa_emails' = Append(fa_emails, id)
                           /\ fa_processed_emails' = fa_processed_emails \cup {id}
                           /\ fa_email_ids' = Tail(fa_email_ids)
                           /\ UNCHANGED << fa_pc, fa_todo, fa_refused, fa_raised >>
                      [] r = "NO" ->
                           /\ FetchRefused
                           /\ UNCHANGED << fa_processed_emails, fa_raised >>
                      [] r = "raise" ->                         \* fetch or parsing raised
                           /\ GetUnreadRaised
                           /\ UNCHANGED << fa_processed_emails, fa_refused >>
    /\ UNCHANGED << fa_mail, fa_result, fa_draft_vars >>
    /\ UNCHANGED << sp_vars, id_vars, iv_vars, cp_vars, ap_vars >>

\* mail.close()
FaClose ==
    /\ fa_pc = "close"
    /\ \E ok \in BOOLEAN :
          IF ok
          THEN /\ fa_mail' = "AUTH"
               /\ fa_pc' = "logout"
               /\ UNCHANGED << fa_email_ids, fa_emails, fa_todo, fa_raised >>
          ELSE /\ GetUnreadRaised
               /\ UNCHANGED fa_mail
    /\ UNCHANGED << fa_processed_emails, fa_result, fa_refused, fa_draft_vars >>
    /\ UNCHANGED << sp_vars, id_vars, iv_vars, cp_vars, ap_vars >>

\* mail.logout(); return emails
FaLogout ==
    /\ fa_pc = "logout"
    /\ fa_mail' = "LOGOUT"
    /\ \E ok \in BOOLEAN :
          IF ok
          THEN /\ GetUnreadReturn(fa_emails)
               /\ UNCHANGED fa_raised
          ELSE GetUnreadRaised
    /\ UNCHANGED << fa_processed_emails, fa_result, fa_refused, fa_draft_vars >>
    /\ UNCHANGED << sp_vars, id_vars, iv_vars, cp_vars, ap_vars >>

\* save_reply_as_draft returns to process_emails, which logs the result and
\* goes on with the next email; the locals of the call are gone.
SaveDraftReturn ==
    /\ fa_todo' = Tail(fa_todo)
    /\ fa_pc' = "emails"
    /\ fa_draft_mail' = "NONE"
    /\ fa_folder' = "none"
    /\ fa_target' = "none"

\* `if not emails: return`, then `for email_data in emails`:
\* create_standard_reply, which may raise out of process_emails, and the
\* head of save_reply_as_draft.
FaEmails ==
    /\ fa_pc = "emails"
    /\ IF fa_todo = << >>
       THEN fa_pc' = "sleep"
       ELSE \E raised \in BOOLEAN :
               fa_pc' = IF raised THEN "except_sleep" ELSE "draft_connect"
    /\ UNCHANGED << fa_processed_emails, fa_fetch_vars, fa_todo, fa_draft_vars >>
    /\ UNCHANGED << sp_vars, id_vars, iv_vars, cp_vars, ap_vars >>

\* mail = self.connect_imap(); if not mail: return False
FaDraftConnect ==
    /\ fa_pc = "draft_connect"
    /\ \E ok \in BOOLEAN :
          IF ok
          THEN /\ fa_draft_mail' = connect_imap
               /\ fa_pc' = "select_Drafts"
               /\ UNCHANGED << fa_todo, fa_folder, fa_target >>
          ELSE SaveDraftReturn
    /\ UNCHANGED << fa_processed_emails, fa_fetch_vars >>
    /\ UNCHANGED << sp_vars, id_vars, iv_vars, cp_vars, ap_vars >>

\* try: mail.select('Drafts')  except: try: mail.select('DRAFT')
\*                                    except: return False
\* A status other than OK is not an exception: the code goes on to append.
FaDraftSelect ==
    /\ fa_pc \in {"select_Drafts", "select_DRAFT"}
    /\ \E r \in {"OK", "NO", "raise"} :
          CASE r = "OK" ->
                 /\ fa_draft_mail' = "SELECTED"
                 /\ fa_folder' = IF fa_pc = "select_Drafts" THEN "Drafts" ELSE "DRAFT"
                 /\ fa_pc' = "append"
                 /\ UNCHANGED << fa_todo, fa_target >>
            [] r = "NO" ->
                 /\ fa_pc' = "append"
                 /\ UNCHANGED << fa_todo, fa_draft_vars >>
            [] r = "raise" ->
                 IF fa_pc = "select_Drafts"
                 THEN /\ fa_pc' = "select_DRAFT"
                      /\ UNCHANGED << fa_todo, fa_draft_vars >>
                 ELSE SaveDraftReturn
    /\ UNCHANGED << fa_processed_emails, fa_fetch_vars >>
    /\ UNCHANGED << sp_vars, id_vars, iv_vars, cp_vars, ap_vars >>

\* mail.append('Drafts', '\\Draft', ...): the folder is named by the literal;
\* the status is not looked at; raising returns False.
FaDraftAppend ==
    /\ fa_pc = "append"
    /\ \E r \in {"OK", "NO", "raise"} :
          IF r = "raise"
          THEN SaveDraftReturn
          ELSE /\ fa_target' = "Drafts"
               /\ fa_pc' = "draft_close"
               /\ UNCHANGED << fa_todo, fa_draft_mail, fa_folder >>
    /\ UNCHANGED << fa_processed_emails, fa_fetch_vars >>
    /\ UNCHANGED << sp_vars, id_vars, iv_vars, cp_vars, ap_vars >>

\* mail.close(): outside the SELECTED state it raises, and the call returns False.
FaDraftClose ==
    /\ fa_pc = "draft_close"
    /\ \/ /\ fa_draft_mail = "SELECTED"
          /\ fa_draft_mail' = "AUTH"
          /\ fa_pc' = "draft_logout"
          /\ UNCHANGED << fa_todo, fa_folder, fa_target >>
       \/ SaveDraftReturn
    /\ UNCHANGED << fa_processed_emails, fa_fetch_vars >>
    /\ UNCHANGED << sp_vars, id_vars, iv_vars, cp_vars, ap_vars >>

\* mail.logout(); return True
FaDraftLogout ==
    /\ fa_pc = "draft_logout"
    /\ SaveDraftReturn
    /\ UNCHANGED << fa_processed_emails, fa_fetch_vars >>
    /\ UNCHANGED << sp_vars, id_vars, iv_vars, cp_vars, ap_vars >>

\* time.sleep(check_interval), or the time.sleep(30) of `except Exception`;
\* the locals of the iteration are gone.
FaSleep ==
    /\ fa_pc \in {"sleep", "except_sleep"}
    /\ fa_pc' = "process"
    /\ fa_mail' = "NONE"
    /\ fa_email_ids' = << >>
    /\ fa_emails' = << >>
    /\ fa_todo' = << >>
    /\ fa_result' = << >>
    /\ fa_refused' = { }
    /\ fa_raised' = FALSE
    /\ fa_draft_mail' = "NONE"
    /\ fa_folder' = "none"
    /\ fa_target' = "none"
    /\ UNCHANGED fa_processed_emails
    /\ UNCHANGED << sp_vars, id_vars, iv_vars, cp_vars, ap_vars >>

\* KeyboardInterrupt: the loop breaks (or the process dies in the handler).
FaInterrupt ==
    /\ fa_pc \notin {"off", "stopped"}
    /\ fa_pc' = "stopped"
    /\ UNCHANGED << fa_processed_emails, fa_fetch_vars, fa_todo, fa_draft_vars >>
    /\ UNCHANGED << sp_vars, id_vars, iv_vars, cp_vars, ap_vars >>

run_continuous ==
    \/ FaProcess
    \/ FaConnect
    \/ FaSelect
    \/ FaSearch
    \/ FaIter
    \/ FaClose
    \/ FaLogout
    \/ FaEmails
    \/ FaDraftConnect
    \/ FaDraftSelect
    \/ FaDraftAppend
    \/ FaDraftClose
    \/ FaDraftLogout
    \/ FaSleep

NextFaiss ==
    \/ run_continuous
    \/ FaInterrupt

-----------------------------------------------------------------------------
\* Template selection and reply composition, called on one message:
\* select_template of zoho_faiss.py, of zoho_auto_reply_with_faiss.py and of
\* gmail_auto_reply_with_faiss.py, and the head of save_reply_as_draft.
\* Strings are sequences of tokens; an embedding is a point of a small grid.

\* The finite sequences over S of length at most n.
SeqUpTo(S, n) == UNION { [1..k -> S] : k \in 0..n }

\* Subjects are made of the reply prefix and of one other word.
Subjects == SeqUpTo({"Re: ", "Hello"}, MaxLen)

\* Bodies are made of one whitespace character and one other character.
Bodies == SeqUpTo({" ", "x"}, MaxLen)

\* email_message.get('Message-ID', ''): the header, or '' when there is none.
MessageIds == {"", "<m1@host>"}

\* str.strip(): the string without its leading and trailing whitespace.
RECURSIVE lstrip(_)
lstrip(s) == IF s # << >> /\ Head(s) = " " THEN lstrip(Tail(s)) ELSE s

RECURSIVE rstrip(_)
rstrip(s) ==
    IF s # << >> /\ s[Len(s)] = " " THEN rstrip(SubSeq(s, 1, Len(s) - 1)) ELSE s

strip(s) == rstrip(lstrip(s))

\* len(EMAIL_TEMPLATES)
NumTemplates == 3

\* EMAIL_TEMPLATES[2], the general reply
DefaultTemplate == 2

\* What model.encode can return: a point of the grid.
Vectors == (0..MaxCoord) \X (0..MaxCoord)

\* initialize_faiss_index: template_embeddings = model.encode(templates), one
\* vector per template, in the order of EMAIL_TEMPLATES (FAISS counts from 0).
\* Two templates may get the same vector.
TemplateEmbeddings ==
    [ 0..(NumTemplates - 1) -> { << 0, 0 >>, << MaxCoord, 0 >>, << 0, MaxCoord >> } ]

\* The distance of IndexFlatL2: the squared Euclidean distance.
L2sqr(a, b) == (a[1] - b[1]) * (a[1] - b[1]) + (a[2] - b[2]) * (a[2] - b[2])

\* A later vector at the same distance replaces the best one.
CloserOrEqual(d, best) == d <= best

\* The comparison of the top-1 scan: only a strictly smaller distance
\* replaces the best one found so far.
Closer(d, best) == d < best

\* faiss_index.search(thread_embedding, 1): the vectors are scanned in the
\* order they were added and the best one is kept; indices[0][0] is its index.
RECURSIVE Top1(_, _, _, _)
Top1(x, emb, i, best) ==
    IF i >= NumTemplates
    THEN best
    ELSE Top1(x, emb, i + 1,
              IF Closer(L2sqr(x, emb[i]), L2sqr(x, emb[best])) THEN i ELSE best)

search(x, emb) == Top1(x, emb, 1, 0)

\* f"Re: {original_email['subject']}"
ReplySubject(subject) == << "Re: " >> \o subject

\* Both headers are set whatever the message id is.
ThreadingHeadersAlways(message_id) ==
    { << "In-Reply-To", message_id >>, << "References", message_id >> }

\* if original_email['message_id']: reply['In-Reply-To'] = ...; reply['References'] = ...
ThreadingHeaders(message_id) ==
    IF message_id # ""
    THEN { << "In-Reply-To", message_id >>, << "References", message_id >> }
    ELSE { }

\* Nothing is called.
ComposeOff ==
    /\ cp_pc = "off"
    /\ cp_prog = "none"
    /\ cp_body = << >>
    /\ cp_index = [ i \in 0..(NumTemplates - 1) |-> << 0, 0 >> ]
    /\ cp_subject = << >>
    /\ cp_message_id = ""
    /\ cp_encoded = FALSE
    /\ cp_embedding = << >>
    /\ cp_template = -1
    /\ cp_reply_subject = << >>
    /\ cp_reply_headers = { }

\* A call of select_template: of ZohoEmailProcessor with the body of a
\* message, or of one of the two thread repliers with the thread content,
\* which get_thread_details has stripped. The index was built at import time.
SelectTemplateCalled ==
    /\ cp_pc = "select_template"
    /\ cp_index \in TemplateEmbeddings
    /\ \/ /\ cp_prog = "zoho_faiss"
          /\ cp_body \in Bodies
       \/ /\ cp_prog \in {"zoho_auto_reply_with_faiss", "gmail_auto_reply_with_faiss"}
          /\ cp_body \in { strip(b) : b \in Bodies }
    /\ cp_subject = << >>
    /\ cp_message_id = ""
    /\ cp_encoded = FALSE
    /\ cp_embedding = << >>
    /\ cp_template = -1
    /\ cp_reply_subject = << >>
    /\ cp_reply_headers = { }

\* A call of save_reply_as_draft with a message of some subject and message id.
SaveReplyCalled ==
    /\ cp_pc = "save_reply_as_draft"
    /\ cp_prog = "zoho_faiss"
    /\ cp_subject \in Subjects
    /\ cp_message_id \in MessageIds
    /\ cp_body = << >>
    /\ cp_index = [ i \in 0..(NumTemplates - 1) |-> << 0, 0 >> ]
    /\ cp_encoded = FALSE
    /\ cp_embedding = << >>
    /\ cp_template = -1
    /\ cp_reply_subject = << >>
    /\ cp_reply_headers = { }

ComposeStarted == SelectTemplateCalled \/ SaveReplyCalled

\* thread_embedding = model.encode([...]); the search; EMAIL_TEMPLATES[best_template_idx]
EncodeAndSearch ==
    \E v \in Vectors :
       /\ cp_encoded' = TRUE
       /\ cp_embedding' = v
       /\ cp_template' = search(v, cp_index)

\* ZohoEmailProcessor.select_template
select_template ==
    /\ cp_pc = "select_template"
    /\ cp_prog = "zoho_faiss"
    /\ IF strip(cp_body) = << >>
       THEN /\ cp_template' = DefaultTemplate
            /\ UNCHANGED << cp_encoded, cp_embedding >>
       ELSE EncodeAndSearch
    /\ cp_pc' = "returned"
    /\ UNCHANGED << cp_prog, cp_body, cp_index, cp_subject, cp_message_id,
                    cp_reply_subject, cp_reply_headers >>
    /\ UNCHANGED << sp_vars, id_vars, iv_vars, fa_vars, ap_vars >>

\* select_template of the two thread repliers: no test of the content.
select_template_thread ==
    /\ cp_pc = "select_template"
    /\ cp_prog \in {"zoho_auto_reply_with_faiss", "gmail_auto_reply_with_faiss"}
    /\ EncodeAndSearch
    /\ cp_pc' = "returned"
    /\ UNCHANGED << cp_prog, cp_body, cp_index, cp_subject, cp_message_id,
                    cp_reply_subject, cp_reply_headers >>
    /\ UNCHANGED << sp_vars, id_vars, iv_vars, fa_vars, ap_vars >>

\* The head of save_reply_as_draft: the Subject and the threading headers of
\* the reply (the same lines in the three IMAP processors).
compose_reply ==
    /\ cp_pc = "save_reply_as_draft"
    /\ cp_reply_subject' = ReplySubject(cp_subject)
    /\ cp_reply_headers' = ThreadingHeaders(cp_message_id)
    /\ cp_pc' = "returned"
    /\ UNCHANGED << cp_prog, cp_body, cp_index, cp_subject, cp_message_id,
                    cp_encoded, cp_embedding, cp_template >>
    /\ UNCHANGED << sp_vars, id_vars, iv_vars, fa_vars, ap_vars >>

NextCompose ==
    \/ select_template
    \/ select_template_thread
    \/ compose_reply

-----------------------------------------------------------------------------
\* The API-based pollers: main of zoho_auto_reply_with_faiss.py, and of
\* gmail_auto_reply_with_faiss.py and gmail_auto_reply_thread_draft.py, which
\* have the same loop. Unread is a flag the service keeps for each message.

\* The poller as loaded, main not called.
ApiOff ==
    /\ ap_pc = "off"
    /\ ap_unread = {}
    /\ ap_messages = << >>
    /\ ap_drafts = [i \in Ids |-> 0]
    /\ ap_empty = FALSE
    /\ ap_error = FALSE

\* main has authenticated and is at the top of its loop; every message of the
\* inbox is unread.
ApiStarted ==
    /\ ap_pc = "list"
    /\ ap_unread = Ids
    /\ ap_messages = << >>
    /\ ap_drafts = [i \in Ids |-> 0]
    /\ ap_empty = FALSE
    /\ ap_error = FALSE

\* What get_thread can answer for the thread of a message: no messages (also
\* the {} of a status other than 200), or the message itself.
Threads(id) == { << >>, << id >> }

\* get_thread_details(service, thread_id): one entry of thread_details for
\* each message; the messages[-1] of its return statement raises IndexError
\* when the thread has no messages.
get_thread_details(messages) ==
    IF messages = << >>
    THEN [raised |-> TRUE, thread_details |-> << >>, latest_message_id |-> None]
    ELSE [raised |-> FALSE, thread_details |-> messages,
          latest_message_id |-> messages[Len(messages)]]

\* except Exception as e: print(...); time.sleep(60): what is left of the
\* cycle is given up.
ApiExcept ==
    /\ ap_pc' = "sleep"
    /\ UNCHANGED << ap_unread, ap_messages, ap_drafts >>

\* The body of the for loop is over for this message.
ApiNextMessage ==
    /\ ap_messages' = Tail(ap_messages)
    /\ ap_pc' = "loop"

\* messages = get_unread_emails(service): the unread messages of the inbox,
\* [] when list_messages was answered with a status other than 200.
ApiList ==
    /\ ap_pc = "list"
    /\ \E r \in {"OK", "refused", "raise"} :
          CASE r = "OK" ->
                 /\ ap_messages' = SortedSeq(ap_unread)
                 /\ ap_pc' = "loop"
                 /\ UNCHANGED << ap_unread, ap_drafts, ap_error >>
            [] r = "refused" ->
                 /\ ap_messages' = << >>
                 /\ ap_pc' = "loop"
                 /\ ap_error' = TRUE
                 /\ UNCHANGED << ap_unread, ap_drafts >>
            [] r = "raise" ->
                 /\ ApiExcept
                 /\ ap_error' = TRUE
    /\ UNCHANGED ap_empty
    /\ UNCHANGED << sp_vars, id_vars, iv_vars, fa_vars, cp_vars >>

\* if not messages: ... else: for message in messages:   then time.sleep(60)
ApiLoop ==
    /\ ap_pc = "loop"
    /\ ap_pc' = IF ap_messages = << >> THEN "sleep" ELSE "thread"
    /\ UNCHANGED << ap_unread, ap_messages, ap_drafts, ap_empty, ap_error >>
    /\ UNCHANGED << sp_vars, id_vars, iv_vars, fa_vars, cp_vars >>

\* thread_details, latest_message_id, thread_content =
\*     get_thread_details(service, thread_id)
\* if not thread_details: print("... Skipping."); continue
ApiThread ==
    /\ ap_pc = "thread"
    /\ \/ \E messages \in Threads(Head(ap_messages)) :
             LET r == get_thread_details(messages) IN
             IF r.raised
             THEN /\ ApiExcept
                  /\ ap_empty' = TRUE
                  /\ UNCHANGED ap_error
             ELSE IF r.thread_details = << >>
             THEN /\ ApiNextMessage
                  /\ ap_empty' = TRUE
                  /\ UNCHANGED << ap_unread, ap_drafts, ap_error >>
             ELSE /\ ap_pc' = "draft"
                  /\ UNCHANGED << ap_unread, ap_messages, ap_drafts, ap_empty, ap_error >>
       \/ /\ ApiExcept                                    \* get_thread raised
          /\ ap_error' = TRUE
          /\ UNCHANGED ap_empty
    /\ UNCHANGED << sp_vars, id_vars, iv_vars, fa_vars, cp_vars >>

\* reply_content = select_template(thread_content)
\* draft = create_draft_reply(...); print(... draft['id'] ...)
\* A create_draft answered with a status other than 201 gives {}, and
\* draft['id'] raises.
ApiDraft ==
    /\ ap_pc = "draft"
    /\ \E r \in {"created", "refused", "raise"} :
          CASE r = "created" ->
                 /\ ap_drafts' = Bump(ap_drafts, Head(ap_messages))
                 /\ ap_pc' = "mark"
                 /\ UNCHANGED << ap_unread, ap_messages, ap_error >>
            [] r \in {"refused", "raise"} ->
                 /\ ApiExcept
                 /\ ap_error' = TRUE
    /\ UNCHANGED ap_empty
    /\ UNCHANGED << sp_vars, id_vars, iv_vars, fa_vars, cp_vars >>

\* mark_email_as_read(service, msg_id): update_message(msg_id,
\* {'unread': False}); the False of a status other than 200 is not looked at.
ApiMark ==
    /\ ap_pc = "mark"
    /\ \E r \in {"OK", "refused", "raise"} :
          CASE r = "OK" ->
                 /\ ap_unread' = ap_unread \ {Head(ap_messages)}
                 /\ ApiNextMessage
                 /\ UNCHANGED << ap_drafts, ap_error >>
            [] r = "refused" ->
                 /\ ApiNextMessage
                 /\ ap_error' = TRUE
                 /\ UNCHANGED << ap_unread, ap_drafts >>
            [] r = "raise" ->
                 /\ ApiExcept
                 /\ ap_error' = TRUE
    /\ UNCHANGED ap_empty
    /\ UNCHANGED << sp_vars, id_vars, iv_vars, fa_vars, cp_vars >>

\* time.sleep(60), of the loop or of its except; the next cycle starts.
ApiSleep ==
    /\ ap_pc = "sleep"
    /\ ap_pc' = "list"
    /\ ap_messages' = << >>
    /\ ap_empty' = FALSE
    /\ ap_error' = FALSE
    /\ UNCHANGED << ap_unread, ap_drafts >>
    /\ UNCHANGED << sp_vars, id_vars, iv_vars, fa_vars, cp_vars >>

\* main: while True
NextApi ==
    \/ ApiList
    \/ ApiLoop
    \/ ApiThread
    \/ ApiDraft
    \/ ApiMark
    \/ ApiSleep

-----------------------------------------------------------------------------
\* A run starts one of the three processors or the API-based poller, follows
\* the timing of the polling loop, or makes one call of a composing function;
\* what is not started stays as constructed.

InitSmart == SmartStarted /\ IdleOff /\ IvOff /\ FaissOff /\ ComposeOff /\ ApiOff

InitIdle == IdleStarted /\ SmartOff /\ IvOff /\ FaissOff /\ ComposeOff /\ ApiOff

InitInterval == IvStarted /\ SmartOff /\ IdleOff /\ FaissOff /\ ComposeOff /\ ApiOff

InitFaiss == FaissStarted /\ SmartOff /\ IdleOff /\ IvOff /\ ComposeOff /\ ApiOff

InitCompose == ComposeStarted /\ SmartOff /\ IdleOff /\ IvOff /\ FaissOff /\ ApiOff

InitApi == ApiStarted /\ SmartOff /\ IdleOff /\ IvOff /\ FaissOff /\ ComposeOff

Init ==
    \/ InitSmart
    \/ InitIdle
    \/ InitInterval
    \/ InitFaiss
    \/ InitCompose
    \/ InitApi

Next ==
    \/ NextSmart
    \/ NextIdle
    \/ NextInterval
    \/ NextFaiss
    \/ NextCompose
    \/ NextApi

Spec == Init /\ [][Next]_vars

SpecSmart == InitSmart /\ [][NextSmart]_vars

\* The smart poller with restarts of its process.
SpecSmartRestart == InitSmart /\ [][NextSmart \/ SmartRestart]_vars

\* Both threads of the smart poller are daemon threads the interpreter keeps
\* scheduling, and every call they make returns or raises.
FairSpecSmart ==
    /\ SpecSmart
    /\ WF_vars(smart_polling_loop)
    /\ WF_vars(email_processor_worker)

SpecIdle == InitIdle /\ [][NextIdle]_vars

\* The watcher is a daemon thread the interpreter keeps scheduling, and every
\* call it makes returns or raises (the wait of line 211 has a 30 s timeout).
FairSpecIdle ==
    /\ SpecIdle
    /\ WF_vars(idle_loop)

SpecInterval == InitInterval /\ [][NextInterval]_vars

SpecFaiss == InitFaiss /\ [][NextFaiss]_vars

SpecCompose == InitCompose /\ [][NextCompose]_vars

SpecApi == InitApi /\ [][NextApi]_vars

-----------------------------------------------------------------------------
\* Claims

\* C1, as stated: the membership check against processed_emails is true for an
\* id exactly once, on its first appearance, and false on every later one. In
\* the smart poller: when the check is about to be made for an id it has let
\* through before, the id is in processed_emails. In the IDLE processor: the
\* check lets an id through to process_new_email at most once.
C1_CheckTrueExactlyOnce ==
    \A id \in Ids :
        /\ (sp_poll = "loop" /\ sp_email_ids # << >> /\ Head(sp_email_ids) = id
               /\ id \in sp_seen) => id \in sp_processed_emails
        /\ id_handled[id] <= 1

\* The id has been handed on by get_new_emails (it is in the list being built or
\* returned, or it was put on the queue).
HandedOnSmart(id) ==
    sp_enq[id] >= 1 \/ id \in Range(sp_emails) \/ id \in Range(sp_new_emails)

\* process_new_email was called for the id and has returned.
HandledIdle(id) ==
    /\ id_handled[id] >= 1
    /\ ~(id_watch \in {"fetch", "save_draft", "add"} /\ Head(id_email_ids) = id)

\* C1, amended: no message id is put on email_queue more than once, none is
\* given to process_new_email more than once, and once an id has been handed on
\* it is in processed_emails, so the check is false on every later appearance.
C1_NoIdDispatchedTwice ==
    \A id \in Ids :
        /\ sp_enq[id] <= 1
        /\ id_handled[id] <= 1
        /\ HandedOnSmart(id) => id \in sp_processed_emails
        /\ HandledIdle(id) => id \in id_processed_emails

\* An id that was already put on the queue is returned by a later search and is
\* the one the loop looks at now.
C1_Witness ==
    \E id \in Ids :
        /\ sp_enq[id] = 1
        /\ sp_poll = "loop"
        /\ sp_email_ids # << >>
        /\ Head(sp_email_ids) = id

\* C2: every id that is on email_queue, was taken from it, or is in the list
\* about to be put on it is in processed_emails, and processed_emails.add ran
\* at most once for each id.
C2_ProcessedBeforeQueued ==
    \A id \in Ids :
        /\ (id \in Range(sp_email_queue) \cup sp_taken
                   \cup Range(sp_new_emails) \cup Range(sp_emails))
              => (id \in sp_processed_emails /\ sp_added[id] = 1)
        /\ sp_added[id] <= 1

\* One item is on the queue, another has been taken by the worker.
C2_Witness ==
    \E a, b \in Ids :
        /\ a # b
        /\ a \in Range(sp_email_queue)
        /\ b \in sp_taken

\* C3: once an IDLE was answered with anything but '+ idling', the watcher is in
\* fallback_polling (or has left it because running was cleared) and no IDLE
\* is sent again.
C3_FallbackIsPermanent ==
    id_unsupported =>
        /\ id_watch_op # "IDLE"
        /\ id_watch # "send_idle"
        /\ id_fallback \/ ~id_running

\* The fallback poll searches again after an earlier call of it has raised.
C3_Witness ==
    /\ id_unsupported
    /\ id_err
    /\ id_running
    /\ id_watch = "recent"
    /\ id_watch_op = "search"

C5_NoCommandAfterError ==
    id_err => id_watch_op \in {"none", "close", "logout"}

\* C6: the step in which the watcher opens a new session starts from a state in
\* which self.mail is None or refers to a session that has been logged out.
C6_TornDownBeforeConnect ==
    [][ (id_watch = "connect" /\ id_watch' = "select")
            => id_mail \in {"None", "LOGOUT"} ]_vars

\* C7: when get_new_emails or save_reply_as_draft has returned, the session it
\* opened (if any) is logged out.
C7_LoggedOutOnReturn ==
    /\ sp_poll \in {"put", "adjust"} => sp_mail \in {"NONE", "LOGOUT"}
    /\ sp_work = "task_done" => sp_draft_mail \in {"NONE", "LOGOUT"}

\* C8: the watcher and the main thread never both have a call outstanding on
\* the session self.mail refers to.
C8_OneCallInFlight ==
    ~(id_watch_op # "none" /\ id_main_op \notin {"none", "stale"})

\* C9: once running is cleared, the watcher starts no IDLE, search or fetch.
C9_NothingStartedAfterStop ==
    [][ ~id_running =>
          ~(id_watch_op = "none" /\ id_watch_op' \in {"IDLE", "search", "fetch"}) ]_vars

\* C10: after running is cleared, the polling loop and the worker both come to
\* their end.
C10_BothRegionsTerminate ==
    (~sp_running) ~> (sp_poll = "done" /\ sp_work = "done")

\* Both threads have ended after a stop, and the worker had taken work before.
C10_Witness ==
    /\ ~sp_running
    /\ sp_poll = "done"
    /\ sp_work = "done"
    /\ sp_taken # {}

\* C11: when the worker has stopped, every work item that was put on email_queue
\* before the shutdown sentinel has been taken from it: what is still on the
\* queue stands behind a sentinel.
C11_DrainedBeforeWorkerStops ==
    sp_work = "done" =>
        \A i \in 1..Len(sp_email_queue) :
            sp_email_queue[i] # None =>
                \E j \in 1..(i - 1) : sp_email_queue[j] = None

\* The worker took the item and has made the connect_imap call of its
\* save_reply_as_draft.
Attempted(id) ==
    /\ id \in sp_taken
    /\ ~(sp_work = "connect" /\ sp_item = id)

\* C12: the worker ends only after running was cleared, whatever
\* save_reply_as_draft returned before; and every item that is on email_queue
\* while running is true is taken and attempted, unless running is cleared
\* first.
C12_WorkerSurvivesFailure ==
    /\ [](sp_work = "done" => ~sp_running)
    /\ \A id \in Ids :
          (sp_running /\ id \in Range(sp_email_queue))
              ~> (~sp_running \/ Attempted(id))

\* The draft of one item failed before its append (no connection, or no
\* Drafts folder), and the worker has since taken another item and connected
\* for it.
C12_Witness ==
    \E a, b \in Ids :
        /\ a # b
        /\ a \in sp_taken
        /\ sp_appended[a] = 0
        /\ sp_item = b
        /\ sp_work = "select_Drafts"
        /\ sp_running

DrainReturned == id_after \in {"drain_zero", "drain_one", "drain_many"}

\* C14: after a drain started by a new-message signal has returned, whether it
\* handled zero, one or several messages, the watcher is at the head of the IDLE
\* loop or is sending the next IDLE on the session it had, without a connect
\* in between; and while running stays true the IDLE is sent.
C14_DrainReturnsToIdle ==
    /\ [](DrainReturned =>
             /\ id_watch \in {"idle_head", "send_idle"}
             /\ id_watch_op \in {"none", "IDLE"}
             /\ id_mail # "None"
             /\ id_email_ids = << >>)
    /\ DrainReturned ~> (~id_running \/ id_watch_op = "IDLE")

\* The IDLE after a drain that found nothing new is outstanding, and an earlier
\* drain had handled every message of the mailbox.
C14_Witness ==
    /\ id_after = "drain_zero"
    /\ id_watch = "send_idle"
    /\ id_watch_op = "IDLE"
    /\ id_processed_emails = Ids

\* connect_imap of the watcher returns a session.
ConnectSucceeds == IdleWatchConnect /\ id_mail' = "AUTH"

\* The select of INBOX on the new session returns.
SelectSucceeds == IdleWatchSelect /\ id_watch' = "idle_head"

\* C15: a failed connect never ends the watcher: it ends only after running was
\* cleared; after a failed connect it sleeps and comes back to connect; and if
\* the connect and the select that open a session succeed whenever they are
\* tried often enough, the watcher sends an IDLE unless running is cleared.
C15_ConnectIsRetried ==
    /\ [](id_watch = "done" => ~id_running)
    /\ [](id_connect_failed /\ id_running =>
             id_watch \notin {"done", "off"})
    /\ (SF_vars(ConnectSucceeds) /\ SF_vars(SelectSucceeds))
          => ((id_watch = "connect_sleep") ~> (~id_running \/ id_watch_op = "IDLE"))

\* After a connect that failed, a later one has succeeded and the IDLE on the
\* new session is outstanding.
C15_Witness ==
    /\ id_connect_failed
    /\ id_running
    /\ id_watch = "send_idle"
    /\ id_watch_op = "IDLE"

\* C16: the polling interval is never below min_interval and never above
\* max_interval.
C16_IntervalWithinBounds ==
    /\ min_interval * Scale <= iv_current_interval
    /\ iv_current_interval <= max_interval * Scale

\* The interval was stretched towards max_interval and stopped there.
C16_Witness ==
    /\ iv_pc = "sleep_time"
    /\ iv_current_interval = max_interval * Scale
    /\ iv_prev_interval < max_interval * Scale
    /\ iv_prev_interval + (iv_prev_interval \div 5) > max_interval * Scale

\* adjust_polling_interval has just returned from a call with messages found.
AdjustedFound == iv_pc = "sleep_time" /\ iv_found

\* adjust_polling_interval has just returned from a call with nothing found.
AdjustedNotFound == iv_pc = "sleep_time" /\ ~iv_found

\* C17: after an adjustment with messages found, the interval is half of what
\* it was, or min_interval where the half is below it, and no time has passed
\* since last_email_time; so the interval has not grown, it has shrunk unless
\* it was min_interval, and from min_interval it stays min_interval.
C17_FoundHalvesInterval ==
    AdjustedFound =>
        /\ iv_prev_interval >= 2 * min_interval * Scale
              => 2 * iv_current_interval = iv_prev_interval
        /\ iv_prev_interval < 2 * min_interval * Scale
              => iv_current_interval = min_interval * Scale
        /\ iv_time_since_last_email = 0
        /\ iv_current_interval <= iv_prev_interval
        /\ iv_prev_interval > min_interval * Scale
              => iv_current_interval < iv_prev_interval
        /\ iv_prev_interval = min_interval * Scale
              => iv_current_interval = min_interval * Scale

\* Messages were found with the interval at min_interval, long after the last
\* ones: it is still min_interval.
C17_Witness ==
    /\ AdjustedFound
    /\ iv_prev_interval = min_interval * Scale
    /\ iv_current_interval = min_interval * Scale
    /\ iv_prev_since > 0

\* C18: after an adjustment with nothing found, the interval is 1.2 times what
\* it was, or max_interval where that is beyond it, if more than 600 s had
\* passed since last_email_time, and is what it was otherwise; last_email_time
\* is what it was.
C18_IdleStretchesInterval ==
    AdjustedNotFound =>
        /\ iv_time_since_last_email = iv_prev_since
        /\ iv_prev_since > idle_threshold =>
              iv_current_interval =
                  IF iv_prev_interval + (iv_prev_interval \div 5) <= max_interval * Scale
                  THEN iv_prev_interval + (iv_prev_interval \div 5)
                  ELSE max_interval * Scale
        /\ iv_prev_since <= idle_threshold =>
              iv_current_interval = iv_prev_interval

\* Nothing was found exactly 600 s after the last message: the interval, which
\* was not the default any more, is left as it was.
C18_Witness ==
    /\ AdjustedNotFound
    /\ iv_prev_since = idle_threshold
    /\ iv_current_interval = iv_prev_interval
    /\ iv_current_interval # current_interval * Scale

\* C19: the sleep is the interval after the adjustment less the time the cycle
\* took, or 1 s where that is less than 1 s: it is at least 1 s and at most the
\* interval.
C19_SleepIsRestOfInterval ==
    iv_pc = "sleeping" =>
        /\ iv_current_interval - iv_processing_time * Scale >= min_sleep * Scale
              => iv_sleep_time = iv_current_interval - iv_processing_time * Scale
        /\ iv_current_interval - iv_processing_time * Scale < min_sleep * Scale
              => iv_sleep_time = min_sleep * Scale
        /\ iv_sleep_time >= min_sleep * Scale
        /\ iv_sleep_time <= iv_current_interval

\* The cycle took longer than the interval, which the adjustment had just
\* changed: the sleep is 1 s.
C19_Witness ==
    /\ iv_pc = "sleeping"
    /\ iv_processing_time * Scale > iv_current_interval
    /\ iv_current_interval # iv_prev_interval
    /\ iv_sleep_time = min_sleep * Scale

\* The worker took the item and has finished with it.
Finished(id) == id \in sp_taken /\ sp_item # id

\* C20: for every message id: mail.append is called at most once for it, it is
\* put on email_queue at most once and taken from it at most once, and whatever
\* was found, queued or taken is in processed_emails; when the worker has
\* finished with it and no call of the run has failed, append was called
\* exactly once; and a message that was found is appended unless a call fails
\* or running is cleared.
C20_EndToEndExactlyOnce ==
    /\ [](\A id \in Ids :
             /\ sp_appended[id] <= 1
             /\ sp_enq[id] <= 1
             /\ sp_claims[id] <= 1
             /\ sp_claims[id] <= sp_enq[id]
             /\ (sp_enq[id] = 1 \/ sp_appended[id] = 1) => id \in sp_processed_emails
             /\ (Finished(id) /\ ~sp_fail) => sp_appended[id] = 1)
    /\ \A id \in Ids :
          (id \in Range(sp_emails))
              ~> (sp_fail \/ ~sp_running \/ sp_appended[id] = 1)

\* No call has failed; the draft of a message was appended once, and a later
\* search lists the message again: the loop is about to skip it.
C20_Witness ==
    \E id \in Ids :
        /\ ~sp_fail
        /\ sp_running
        /\ Finished(id)
        /\ sp_appended[id] = 1
        /\ sp_claims[id] = 1
        /\ sp_poll = "loop"
        /\ sp_email_ids # << >>
        /\ Head(sp_email_ids) = id

-----------------------------------------------------------------------------
\* C21: the watch loop never waits for reply composition or draft
\* persistence. In polling mode the poller that has put its emails on the
\* queue can go to sleep whatever the worker is doing; in push mode the
\* watcher is never itself inside create_standard_reply / save_reply_as_draft
\* between finding a message and sending the next IDLE.
C21_WatchNeverWaitsForDrafts ==
    /\ sp_poll = "adjust" => ENABLED SmartPollSleep
    /\ id_watch # "save_draft"

-----------------------------------------------------------------------------
\* The head of save_reply_as_draft has run on cp_subject and cp_message_id.
Composed == cp_pc = "returned" /\ cp_reply_subject # << >>

\* The subject begins with the reply prefix.
HasRePrefix(subject) == subject # << >> /\ Head(subject) = "Re: "

\* C22: building the reply subject is idempotent under the "Re:" prefix: a
\* subject without the prefix gets exactly one "Re: " prepended, and a subject
\* that already starts with it is left unchanged.
C22_ReplySubjectIdempotent ==
    Composed =>
       cp_reply_subject = IF HasRePrefix(cp_subject)
                          THEN cp_subject
                          ELSE << "Re: " >> \o cp_subject

-----------------------------------------------------------------------------
\* The values the reply carries for the header `name`.
HeaderValues(name) == { h[2] : h \in { g \in cp_reply_headers : g[1] = name } }

\* C23: the composed draft carries In-Reply-To and References, both equal to
\* the Message-ID of the source message, when that id is not empty, and
\* carries neither header when it is empty.
C23_ThreadingHeadersFollowMessageId ==
    Composed =>
       IF cp_message_id # ""
       THEN /\ HeaderValues("In-Reply-To") = {cp_message_id}
            /\ HeaderValues("References") = {cp_message_id}
       ELSE /\ HeaderValues("In-Reply-To") = { }
            /\ HeaderValues("References") = { }

\* A reply to a message with a Message-ID has been composed.
C23_Witness ==
    /\ Composed
    /\ cp_message_id # ""
    /\ HeaderValues("In-Reply-To") = {cp_message_id}

-----------------------------------------------------------------------------
\* select_template has returned a template for cp_body.
Selected == cp_pc = "returned" /\ cp_template # -1

\* C24: for every body that is empty or whitespace-only, template selection
\* returns the default template (index 2) and invokes neither the embedding
\* model nor the nearest-neighbour search.
C24_BlankBodyGetsDefault ==
    (Selected /\ strip(cp_body) = << >>) =>
       /\ cp_template = DefaultTemplate
       /\ ~cp_encoded
       /\ cp_embedding = << >>

-----------------------------------------------------------------------------
\* The distance from the embedding of the body to the vector of template i.
DistanceTo(i) == L2sqr(cp_embedding, cp_index[i])

-----------------------------------------------------------------------------
\* C26: the draft is appended to "Drafts", or to the fallback "DRAFT" when
\* "Drafts" could not be selected: the folder the append names is always the
\* folder the session has successfully selected.
C26_AppendsToSelectedFolder ==
    fa_target # "none" => fa_target = fa_folder

-----------------------------------------------------------------------------
\* C27: no error ends a long-running loop: the polling loop, the worker loop
\* and the watch loop are left only after the stop signal, so a loop that has
\* ended implies that running is false.
C27_LoopsEndOnlyAfterStop ==
    /\ sp_poll = "done" => ~sp_running
    /\ sp_work = "done" => ~sp_running
    /\ id_watch = "done" => ~id_running

\* An exception of the watcher has reached the handler of idle_loop while
\* running is true, and the loop is about to go round again.
C27_Witness ==
    /\ id_running
    /\ id_err
    /\ id_watch = "except_sleep"

-----------------------------------------------------------------------------
\* The ids of the running search the loop of get_unread_emails has been through.
Iterated == Range(fa_result) \ Range(fa_email_ids)

\* C28: when the fetch of one id is answered with a status other than OK,
\* that id alone is skipped (neither handed on nor marked processed) and the
\* loop goes on through the rest of the search result: unless an exception
\* ends the call, every other id the search returned is fetched or had been
\* processed before, and the call returns only at the end of the result
\* (a KeyboardInterrupt stops the program wherever it is).
C28_RefusedFetchSkipsOneId ==
    (fa_refused # { } /\ ~fa_raised) =>
       /\ fa_refused \cap Range(fa_emails) = { }
       /\ fa_refused \cap fa_processed_emails = { }
       /\ \A id \in Iterated \ fa_refused : id \in fa_processed_emails
       /\ fa_pc \notin {"loop", "stopped"} => Iterated = Range(fa_result)

\* The fetch of id 1 was refused, id 2 of the same search was fetched after
\* it, and process_emails is at work on the emails the call returned.
C28_Witness ==
    /\ fa_refused = {1}
    /\ ~fa_raised
    /\ fa_result = << 1, 2 >>
    /\ fa_emails = << 2 >>
    /\ fa_pc = "draft_connect"

-----------------------------------------------------------------------------
\* C29: each draft append runs on a session the appending task opened itself
\* for that append, and no session is used by two threads: the worker is on
\* its draft session only between its own connect and its own logout, and no
\* thread other than the watcher has a call on the session the watcher opened.
C29_NoSessionUsedByTwoThreads ==
    /\ sp_work \in {"select_Drafts", "select_DRAFT", "append", "close", "logout"}
          => sp_draft_mail \in {"AUTH", "SELECTED"}
    /\ fa_pc \in {"select_Drafts", "select_DRAFT", "append", "draft_close", "draft_logout"}
          => fa_draft_mail \in {"AUTH", "SELECTED"}
    /\ id_main_op = "none"

-----------------------------------------------------------------------------
\* C30: email_queue and running are the only state the two regions share:
\* no step of the worker changes processed_emails or anything else the
\* polling thread works on, every change of processed_emails is a step of
\* the polling thread, and no step of the polling thread changes what the
\* worker works on.
C30_OnlyQueueAndFlagShared ==
    [][ /\ email_processor_worker =>
              UNCHANGED << sp_processed_emails, sp_poll_vars, iv_vars >>
        /\ sp_processed_emails' # sp_processed_emails => smart_polling_loop
        /\ smart_polling_loop => UNCHANGED sp_work_vars
        /\ sp_stop_monitoring => UNCHANGED sp_processed_emails ]_vars

\* The worker has been through a whole item while the polling thread is in
\* the middle of a later get_new_emails and has just marked another id.
C30_Witness ==
    /\ sp_work = "task_done"
    /\ sp_item \in sp_processed_emails
    /\ sp_poll = "loop"
    /\ sp_processed_emails = Ids

-----------------------------------------------------------------------------
\* C31: replies are only ever stored as drafts: no session a poll, a worker
\* or a watch step holds is an SMTP session, and every append of a reply is
\* made on a session that connect_imap has returned.
C31_RepliesOnlyDrafted ==
    /\ connect_smtp \notin {sp_mail, sp_draft_mail, id_mail, fa_mail, fa_draft_mail}
    /\ sp_work \in {"select_Drafts", "select_DRAFT", "append"}
          => sp_draft_mail \in {connect_imap, "SELECTED"}
    /\ fa_pc \in {"select_Drafts", "select_DRAFT", "draft_append"}
          => fa_draft_mail \in {connect_imap, "SELECTED"}

\* A reply has been appended to the drafts folder.
C31_Witness ==
    \/ \E id \in Ids : sp_appended[id] > 0 /\ sp_saved = "True"
    \/ fa_target = "Drafts" /\ fa_pc = "draft_logout"

-----------------------------------------------------------------------------
\* C32: a stop request cancels nothing in flight: while a fetch or a search
\* of the watcher is outstanding on an open session no step closes that
\* session, and stop_monitoring of the polling processor leaves the sessions
\* of the polling thread and of the worker alone.
C32_InFlightCallKeepsSession ==
    [][ /\ ( /\ id_watch_op \in {"fetch", "search"}
             /\ id_watch_op' = id_watch_op
             /\ Alive ) => Alive'
        /\ sp_stop_monitoring => UNCHANGED << sp_mail, sp_draft_mail >> ]_vars

-----------------------------------------------------------------------------
-----------------------------------------------------------------------------
\* C34: every id get_new_emails has added to processed_emails is put on
\* email_queue in the same cycle: when the puts of a cycle are over, every
\* processed id has been put.
C34_ProcessedIdsAreQueued ==
    sp_poll = "adjust" => \A id \in sp_processed_emails : sp_enq[id] > 0

-----------------------------------------------------------------------------
\* C35: in push mode an id is in processed_emails only after a draft save
\* has been attempted for it: an id whose fetch was refused or has raised is
\* not marked processed.
C35_MarkedOnlyAfterDraftAttempt ==
    id_processed_emails \subseteq id_attempted

-----------------------------------------------------------------------------
\* C36: save_reply_as_draft returns True only if the draft was stored: when
\* the append was answered with a status other than OK, the result the
\* worker gets is False.
C36_TrueOnlyIfStored ==
    sp_saved = "True" => sp_stored

-----------------------------------------------------------------------------
\* C37: the IDLE handshake of the watcher is well-formed: while an IDLE is
\* outstanding on its session the watcher sends no second IDLE, no search
\* and no fetch; the DONE comes first.
C37_OnlyDoneWhileIdling ==
    id_idling => id_watch_op \notin {"IDLE", "search", "fetch"}

-----------------------------------------------------------------------------
\* C38: in the API-based pollers a message whose thread has no details is
\* skipped and the other unread messages of the cycle are still processed:
\* a cycle in which a thread was empty and no call failed ends with the for
\* loop through all of its messages.
C38_EmptyThreadSkipsOneMessage ==
    (ap_pc = "sleep" /\ ap_empty /\ ~ap_error) => ap_messages = << >>

-----------------------------------------------------------------------------
\* C39: in the API-based pollers a message is marked read only after its
\* draft was created, a message whose draft was created is no longer unread
\* when the next cycle lists the inbox, and so no message gets a second draft.
C39_ExactlyOneDraft ==
    \A id \in Ids :
        /\ (ap_pc # "off" /\ id \notin ap_unread) => ap_drafts[id] > 0
        /\ (ap_pc = "list" /\ ap_drafts[id] > 0) => id \notin ap_unread
        /\ ap_drafts[id] <= 1

====
